---- MODULE Spec2Model ----
(***************************************************************************)
(* Model of the authorization gate, the request budget and the entry       *)
(* points of bugbounty-swarm.                                              *)
(*                                                                         *)
(* Strings are sequences of one-character strings, so that strip(),        *)
(* lower(), endswith() and urlparse() are computed character by character. *)
(***************************************************************************)
EXTENDS Integers, Sequences, FiniteSets, TLC

VARIABLES
    target,      \* args.target / the argument of in_scope, require_focus_target
    scopeFile,   \* configs/scope.json as found on disk
    scope,       \* the ScopeConfig instance, or NoScope before ScopeConfig.load
    scopeRes,    \* outcome of require_in_scope
    focusFile,   \* configs/focus.yaml as found on disk
    focus,       \* the focus dict returned by load_focus
    now,         \* datetime.now(timezone.utc), in ticks
    focusRes,    \* outcome of require_focus_target
    resolved,    \* outcome of resolve_focus_target
    policyFile,  \* the policy file as found on disk
    policy,      \* outcome of load_policy
    budget,      \* the RequestBudget instance
    clock,       \* time.time(), in ticks
    callers,     \* per caller: position inside wait_for_budget
    grants,      \* history: the units granted at each time so far
    args,        \* parsed command line of an entry point
    pc,          \* position of the entry point's __main__ block
    trace,       \* what the run has done so far, in order
    exit,        \* exit status of the process, NotExited while it runs
    cmp,         \* a call of the baseline-diff comparator: arguments and result
    responder,   \* how the target answers the requests of a scan
    crawl_data,  \* VulnScannerOrchestrator.crawl_data: forms and endpoints
    scans,       \* results["scans"]: the findings of each family that returned
    triaged,     \* results["triaged_findings"]
    tech_detected, \* VulnScannerOrchestrator.tech_detected
    playbooks,   \* the stems of the playbook files load_all_playbooks finds
    routed,      \* what route_playbooks returned
    scanner,     \* the probe family whose scan() is running, and where it is
    sent         \* the probe requests sent so far

scopeVars  == <<scopeFile, scope, scopeRes>>
focusVars  == <<focusFile, focus, now, focusRes, resolved>>
policyVars == <<policyFile, policy>>
budgetVars == <<budget, clock, callers, grants>>
runVars    == <<args, pc, trace, exit>>
cmpVars    == <<cmp>>
probeVars  == <<responder, crawl_data, scans, triaged, tech_detected, playbooks, routed>>
throttleVars == <<scanner, sent>>
scanVars   == <<cmpVars, probeVars, throttleVars>>
vars == <<target, scopeFile, scope, scopeRes, focusFile, focus, now, focusRes, resolved,
          policyFile, policy, budget, clock, callers, grants, args, pc, trace, exit,
          cmp, responder, crawl_data, scans, triaged, tech_detected, playbooks, routed,
          scanner, sent>>

(***************************************************************************)
(* Python str helpers                                                      *)
(***************************************************************************)
Max(a, b) == IF a >= b THEN a ELSE b

\* str.lower() on one character
LowerChar(c) ==
    CASE c = "A" -> "a"
      [] c = "B" -> "b"
      [] c = "C" -> "c"
      [] c = "D" -> "d"
      [] c = "E" -> "e"
      [] c = "F" -> "f"
      [] c = "G" -> "g"
      [] c = "H" -> "h"
      [] c = "I" -> "i"
      [] c = "J" -> "j"
      [] c = "K" -> "k"
      [] c = "L" -> "l"
      [] c = "M" -> "m"
      [] c = "N" -> "n"
      [] c = "O" -> "o"
      [] c = "P" -> "p"
      [] c = "Q" -> "q"
      [] c = "R" -> "r"
      [] c = "S" -> "s"
      [] c = "T" -> "t"
      [] c = "U" -> "u"
      [] c = "V" -> "v"
      [] c = "W" -> "w"
      [] c = "X" -> "x"
      [] c = "Y" -> "y"
      [] c = "Z" -> "z"
      [] OTHER   -> c

Lower(s) == [i \in 1..Len(s) |-> LowerChar(s[i])]

IsSpace(c) == c = " "

RECURSIVE LStrip(_)
LStrip(s) == IF s # <<>> /\ IsSpace(Head(s)) THEN LStrip(Tail(s)) ELSE s

RECURSIVE RStrip(_)
RStrip(s) ==
    IF s # <<>> /\ IsSpace(s[Len(s)]) THEN RStrip(SubSeq(s, 1, Len(s) - 1)) ELSE s

\* str.strip()
Strip(s) == RStrip(LStrip(s))

\* str.rstrip(".")
RECURSIVE RStripDot(_)
RStripDot(s) ==
    IF s # <<>> /\ s[Len(s)] = "." THEN RStripDot(SubSeq(s, 1, Len(s) - 1)) ELSE s

\* str.endswith(suf)
EndsWith(s, suf) ==
    /\ Len(suf) <= Len(s)
    /\ SubSeq(s, Len(s) - Len(suf) + 1, Len(s)) = suf

\* str.startswith(pre)
StartsWith(s, pre) ==
    /\ Len(pre) <= Len(s)
    /\ SubSeq(s, 1, Len(pre)) = pre

\* sub in s
Contains(s, sub) ==
    \E i \in 1..(Len(s) - Len(sub) + 1) : SubSeq(s, i, i + Len(sub) - 1) = sub

\* s.find(c, start): the first position >= start holding a character of cs,
\* Len(s) + 1 when there is none
FindAny(s, cs, start) ==
    LET hits == {i \in start..Len(s) : s[i] \in cs}
    IN  IF hits = {} THEN Len(s) + 1 ELSE CHOOSE i \in hits : \A j \in hits : i <= j

\* the last position holding c, 0 when there is none
RFind(s, c) ==
    LET hits == {i \in 1..Len(s) : s[i] = c}
    IN  IF hits = {} THEN 0 ELSE CHOOSE i \in hits : \A j \in hits : i >= j

Letters == {"a", "c", "e", "h", "n", "p", "s", "t", "u", "A", "C", "E", "H"}
Digits  == {"0", "1", "5", "8"}
SchemeChars == Letters \cup Digits \cup {"+", "-", "."}

(***************************************************************************)
(* urllib.parse.urlparse(target).hostname or ""                            *)
(***************************************************************************)
UrlHostname(url0) ==
    LET url1   == LStrip(url0)
        i      == FindAny(url1, {":"}, 1)
        hasSch == /\ i > 1
                  /\ i <= Len(url1)
                  /\ url1[1] \in Letters
                  /\ \A k \in 1..(i - 1) : url1[k] \in SchemeChars
        url2   == IF hasSch THEN SubSeq(url1, i + 1, Len(url1)) ELSE url1
        netloc == IF StartsWith(url2, <<"/", "/">>)
                  THEN SubSeq(url2, 3, FindAny(url2, {"/", "?", "#"}, 3) - 1)
                  ELSE <<>>
        hinfo  == SubSeq(netloc, RFind(netloc, "@") + 1, Len(netloc))
        host   == SubSeq(hinfo, 1, FindAny(hinfo, {":"}, 1) - 1)
    IN  Lower(host)

(***************************************************************************)
(* core/scope.py                                                           *)
(***************************************************************************)
_normalize_host(t) ==
    LET host == IF Contains(t, <<":", "/", "/">>) THEN UrlHostname(t) ELSE t
    IN  RStripDot(Lower(Strip(host)))

\* positions reachable after matching [0-9]{1,3} from position i
DigitRun(s, i) ==
    {j \in (i + 1)..(i + 3) : j <= Len(s) + 1 /\ \A k \in i..(j - 1) : s[k] \in Digits}

\* positions reachable after matching the group  \\.[0-9]{1,3}  from i: in
\* the raw string the pattern is a literal backslash, then any character,
\* then one to three digits
IpGroup(s, i) ==
    IF i + 1 <= Len(s) /\ s[i] = "\\" THEN DigitRun(s, i + 2) ELSE {}

IpGroups(s, P) == UNION {IpGroup(s, i) : i \in P}

\* re.fullmatch(r"[0-9]{1,3}(?:\\.[0-9]{1,3}){3}", host)
_is_ip(host) ==
    (Len(host) + 1) \in IpGroups(host, IpGroups(host, IpGroups(host, DigitRun(host, 1))))

NoScope == [loaded |-> FALSE, domains |-> <<>>, ips |-> <<>>]

\* ScopeConfig.load: a missing or unparsable file yields the empty default
ScopeConfigLoad(f) ==
    LET data == IF f.kind = "ok" THEN f ELSE [domains |-> <<>>, ips |-> <<>>]
    IN  [loaded  |-> TRUE,
         domains |-> [i \in 1..Len(data.domains) |-> RStripDot(Lower(data.domains[i]))],
         ips     |-> data.ips]

\* ScopeConfig.in_scope
in_scope(cfg, t) ==
    LET host == _normalize_host(t)
    IN  IF host = <<>> THEN FALSE
        ELSE IF _is_ip(host) THEN \E i \in 1..Len(cfg.ips) : cfg.ips[i] = host
        ELSE \E i \in 1..Len(cfg.domains) :
                \/ host = cfg.domains[i]
                \/ EndsWith(host, <<".">> \o cfg.domains[i])

\* ScopeConfig.load(default_scope_path())
ScopeLoad ==
    /\ ~scope.loaded
    /\ scope' = ScopeConfigLoad(scopeFile)
    /\ UNCHANGED <<target, scanVars, scopeFile, scopeRes, focusVars, policyVars, budgetVars, runVars>>

\* require_in_scope that lets every target through
require_in_scope_open(cfg, t) == "ok"

\* require_in_scope: "ok", or the exception it raises
require_in_scope(cfg, t) == IF in_scope(cfg, t) THEN "ok" ELSE "ValueError"

\* require_authorized that lets every caller through
require_authorized_open(authorized) == "ok"

\* require_authorized: "ok", or the exception it raises
require_authorized(authorized) == IF authorized THEN "ok" ELSE "PermissionError"

\* a call of require_in_scope(scope, target)
RequireInScope ==
    /\ scope.loaded
    /\ scopeRes = "none"
    /\ scopeRes' = require_in_scope(scope, target)
    /\ UNCHANGED <<target, scanVars, scopeFile, scope, focusVars, policyVars, budgetVars, runVars>>

(***************************************************************************)
(* core/focus.py                                                           *)
(*                                                                         *)
(* Times are whole ticks, TicksPerDay ticks to the day.  rotate_start is   *)
(* modelled by what datetime.fromisoformat makes of it: "empty" (blank),   *)
(* "invalid" (does not parse), "naive" (parses, no UTC offset) or "aware"  *)
(* (parses, with offset), with the instant it denotes in field at.         *)
(***************************************************************************)
TicksPerDay == 2
DefaultDays == 56

M_rotate == <<"r", "o", "t", "a", "t", "e">>
M_single == <<"s", "i", "n", "g", "l", "e">>

\* [t.strip().lower() for t in rotate_targets if t.strip()]
RECURSIVE CleanTargets(_)
CleanTargets(ts) ==
    IF ts = <<>> THEN <<>>
    ELSE IF Strip(Head(ts)) # <<>>
         THEN <<Lower(Strip(Head(ts)))>> \o CleanTargets(Tail(ts))
         ELSE CleanTargets(Tail(ts))

\* (now - start_dt).days: timedelta.days is the floor of the day count
TimedeltaDays(t, start) ==
    IF t >= start THEN (t - start) \div TicksPerDay
    ELSE 0 - ((start - t + TicksPerDay - 1) \div TicksPerDay)

Ok(v)     == [st |-> "ok", val |-> v]
Raised(e) == [st |-> e, val |-> <<>>]

resolve_focus_target(f, t) ==
    IF ~f.enabled THEN Ok(<<>>)
    ELSE
    LET mode    == Lower(Strip(IF f.mode = <<>> THEN M_single ELSE f.mode))
        targets == CleanTargets(f.rotate_targets)
        days    == IF f.days = 0 THEN DefaultDays ELSE f.days
        start   == f.rotate_start
        delta_days == Max(0, TimedeltaDays(t, start.at))
        idx     == (delta_days \div Max(days, 1)) % Len(targets)
    IN  IF mode = M_rotate
        THEN IF targets = <<>> THEN Ok(Lower(Strip(f.target)))
             ELSE IF start.kind = "empty" THEN Ok(targets[1])
             ELSE IF start.kind = "invalid" THEN Ok(targets[1])
             ELSE IF start.kind = "naive" THEN Raised("TypeError")
             ELSE Ok(targets[idx + 1])
        ELSE Ok(Lower(Strip(f.target)))

\* require_focus_target comparing the target as typed, without strip().lower()
require_focus_target_raw(f, tgt, t) ==
    IF ~f.enabled THEN "ok"
    ELSE LET focus_target == resolve_focus_target(f, t)
         IN  IF focus_target.st # "ok" THEN focus_target.st
             ELSE IF focus_target.val = <<>> THEN "ValueError"
             ELSE IF tgt # focus_target.val THEN "ValueError"
             ELSE "ok"

require_focus_target(f, tgt, t) ==
    IF ~f.enabled THEN "ok"
    ELSE LET focus_target == resolve_focus_target(f, t)
         IN  IF focus_target.st # "ok" THEN focus_target.st
             ELSE IF focus_target.val = <<>> THEN "ValueError"
             ELSE IF Lower(Strip(tgt)) # focus_target.val THEN "ValueError"
             ELSE "ok"

\* the dict load_focus starts from
FocusDefault ==
    [enabled |-> FALSE, target |-> <<>>, days |-> DefaultDays, mode |-> M_single,
     rotate_targets |-> <<>>, rotate_start |-> [kind |-> "empty", at |-> 0]]

\* load_focus(path): {**default, **data} for a file that yaml.safe_load
\* parses to the dict data; the default, with enabled False, for a file
\* that is missing or that does not parse
load_focus(f) ==
    IF f.kind = "ok"
    THEN [k \in DOMAIN FocusDefault \cup DOMAIN f.data |->
             IF k \in DOMAIN f.data THEN f.data[k] ELSE FocusDefault[k]]
    ELSE FocusDefault

\* a call of resolve_focus_target(focus)
ResolveFocus ==
    /\ resolved.st = "none"
    /\ resolved' = resolve_focus_target(focus, now)
    /\ UNCHANGED <<target, scanVars, scopeVars, focusFile, focus, now, focusRes, policyVars, budgetVars, runVars>>

\* a call of require_focus_target(focus, target)
RequireFocus ==
    /\ focusRes = "none"
    /\ focusRes' = require_focus_target(focus, target, now)
    /\ UNCHANGED <<target, scanVars, scopeVars, focusFile, focus, now, resolved, policyVars, budgetVars, runVars>>

(***************************************************************************)
(* core/auth_policy.py                                                     *)
(*                                                                         *)
(* The policy file is "missing", "unreadable", "badyaml" or "parsed"; a    *)
(* parsed file carries the value yaml.safe_load returns, reduced to what   *)
(* the schema looks at: the type of each value and the length of lists.    *)
(***************************************************************************)
NoData == [t |-> "none", version |-> "absent",
           allow |-> [t |-> "absent", targets |-> [t |-> "absent", len |-> 0],
                                      actions |-> [t |-> "absent", len |-> 0]],
           deny |-> "absent"]

\* one key of the allow block, in validate_policy_schema's loop
AllowKeyErrors(allow, key) ==
    LET v == IF key = "targets" THEN allow.targets ELSE allow.actions
    IN  IF v.t = "absent" THEN {<<"missing", key>>}
        ELSE IF v.t # "list" THEN {<<"not a list", key>>}
        ELSE IF v.len = 0 THEN {<<"empty", key>>}
        ELSE {}

\* validate_policy_schema with the emptiness test of allow.<key> left out
validate_policy_schema_noempty(data) ==
    (IF data.version = "absent" THEN {<<"missing", "version">>}
     ELSE IF data.version \notin {"str", "int", "float", "bool"} THEN {<<"type", "version">>}
     ELSE {})
    \cup
    (IF data.allow.t = "absent" THEN {<<"missing", "allow">>}
     ELSE IF data.allow.t # "dict" THEN {<<"not a mapping", "allow">>}
     ELSE UNION {AllowKeyErrors(data.allow, key) \ {<<"empty", key>>} :
                    key \in {"targets", "actions"}})
    \cup
    (IF data.deny \notin {"absent", "null", "dict"} THEN {<<"not a mapping", "deny">>} ELSE {})

\* validate_policy_schema: the set of error messages (bool is an int to
\* isinstance, so a boolean version passes)
validate_policy_schema(data) ==
    (IF data.version = "absent" THEN {<<"missing", "version">>}
     ELSE IF data.version \notin {"str", "int", "float", "bool"} THEN {<<"type", "version">>}
     ELSE {})
    \cup
    (IF data.allow.t = "absent" THEN {<<"missing", "allow">>}
     ELSE IF data.allow.t # "dict" THEN {<<"not a mapping", "allow">>}
     ELSE UNION {AllowKeyErrors(data.allow, key) : key \in {"targets", "actions"}})
    \cup
    (IF data.deny \notin {"absent", "null", "dict"} THEN {<<"not a mapping", "deny">>} ELSE {})

Exit(code)  == [st |-> "exit", code |-> code, data |-> NoData]
Returned(d) == [st |-> "returned", code |-> 0, data |-> d]

\* _load_yaml: every failure ends in _die, that is sys.exit(1)
_load_yaml(f) ==
    IF f.kind = "missing" THEN Exit(1)
    ELSE IF f.kind \in {"unreadable", "badyaml"} THEN Exit(1)
    ELSE IF f.data.t # "dict" THEN Exit(1)
    ELSE Returned(f.data)

load_policy(f) ==
    LET loaded == _load_yaml(f)
    IN  IF loaded.st = "exit" THEN loaded
        ELSE IF validate_policy_schema(loaded.data) # {} THEN Exit(1)
        ELSE Returned(loaded.data)

\* a call of load_policy(path)
LoadPolicy ==
    /\ policy.st = "none"
    /\ policy' = load_policy(policyFile)
    /\ UNCHANGED <<target, scanVars, scopeVars, focusVars, policyFile, budgetVars, runVars>>

(***************************************************************************)
(* core/rate_limit.py                                                      *)
(*                                                                         *)
(* allow() runs under self._lock, so one call is one atomic step.  A       *)
(* caller inside wait_for_budget is "waiting": each of its steps is one    *)
(* iteration of the loop, allow(n) followed by the sleep when refused.     *)
(***************************************************************************)
NumCallers == 2
MaxRequests == 2
MaxWindow == 2
MaxUnits == 2
MaxClock == 3

Callers == 1..NumCallers

\* RequestBudget.__init__ at time t
NewBudget(m, w, t) ==
    [max_requests |-> m, window_seconds |-> w, _window_start |-> t, _count |-> 0]

\* _reset that starts the new window with the count of the old one
_reset_keeps_count(b, t) == [b EXCEPT !._window_start = t]

\* RequestBudget._reset at time t
_reset(b, t) == [b EXCEPT !._window_start = t, !._count = 0]

\* allow() without the test against max_requests
allow_unchecked(b, n, t) ==
    LET b1 == IF t - b._window_start >= b.window_seconds THEN _reset(b, t) ELSE b
    IN  [ok |-> TRUE, b |-> [b1 EXCEPT !._count = b1._count + n]]

\* RequestBudget.allow(n) at time t: the result and the instance afterwards
allow(b, n, t) ==
    LET b1 == IF t - b._window_start >= b.window_seconds THEN _reset(b, t) ELSE b
    IN  IF b1._count + n > b1.max_requests
        THEN [ok |-> FALSE, b |-> b1]
        ELSE [ok |-> TRUE, b |-> [b1 EXCEPT !._count = b1._count + n]]

\* a caller enters wait_for_budget(n)
Call(c, n) ==
    /\ callers[c].pc = "idle"
    /\ callers' = [callers EXCEPT ![c] = [pc |-> "waiting", n |-> n, denied |-> FALSE]]
    /\ UNCHANGED <<target, scanVars, scopeVars, focusVars, policyVars, budget, clock, grants, runVars>>

\* one iteration of the loop in wait_for_budget: allow(n), and either the
\* return (the argument n is gone with the call) or time.sleep(poll_seconds)
Poll(c) ==
    /\ callers[c].pc = "waiting"
    /\ LET r == allow(budget, callers[c].n, clock)
       IN  /\ budget' = r.b
           /\ IF r.ok
              THEN /\ callers' = [callers EXCEPT ![c].pc = "idle", ![c].n = 1]
                   /\ grants' = [grants EXCEPT ![clock] = @ + callers[c].n]
              ELSE /\ callers' = [callers EXCEPT ![c].denied = TRUE]
                   /\ UNCHANGED grants
    /\ UNCHANGED <<target, scanVars, scopeVars, focusVars, policyVars, clock, runVars>>

\* time.time() advances
Tick ==
    /\ clock < MaxClock
    /\ clock' = clock + 1
    /\ UNCHANGED <<target, scanVars, scopeVars, focusVars, policyVars, budget, callers, grants, runVars>>

\* time.time() advances without bound.  allow() reads the time only through
\* now - self._window_start >= self.window_seconds, so from MaxClock on the
\* instants the model holds are moved back by one instead: the window start,
\* as long as the window has not elapsed, the history of the grants, and the
\* stamps of the requests sent, which stay apart as far back as the clock
\* reaches
TimePasses ==
    /\ IF clock < MaxClock
       THEN /\ clock' = clock + 1
            /\ UNCHANGED <<budget, grants, sent>>
       ELSE /\ clock' = clock
            /\ budget' = IF clock - budget._window_start >= budget.window_seconds
                         THEN budget
                         ELSE [budget EXCEPT !._window_start = @ - 1]
            /\ grants' = [t \in DOMAIN grants |->
                             IF t + 1 \in DOMAIN grants THEN grants[t + 1] ELSE 0]
            /\ sent' = [i \in DOMAIN sent |-> [sent[i] EXCEPT !.stamp = Max(@ - 1, 0)]]
    /\ UNCHANGED <<target, cmpVars, probeVars, scanner, scopeVars, focusVars, policyVars,
                   callers, runVars>>

(***************************************************************************)
(* core/http_utils.py and the _differs copies of the scanners              *)
(*                                                                         *)
(* A response is a requests.Response reduced to what the probes read:      *)
(* status_code, text (its length and the evidence it has) and headers.     *)
(* bool(response) is response.ok in requests: False for a status in        *)
(* 400..599.  None is what a baseline helper returns when its request      *)
(* raised.                                                                 *)
(***************************************************************************)
None == [py |-> "None"]

Abs(x) == IF x < 0 THEN -x ELSE x

Min(a, b) == IF a <= b THEN a ELSE b

\* bool(x) for x a Response or None
Truthy(x) == x # None /\ ~(x.status_code >= 400 /\ x.status_code < 600)

\* the default of min_delta
DefaultMinDelta == 50

\* response_differs(baseline, resp, min_delta)
response_differs(baseline, resp, min_delta) ==
    IF ~Truthy(baseline) THEN TRUE
    ELSE IF baseline.status_code # resp.status_code THEN TRUE
    ELSE Abs(baseline.text.len - resp.text.len) > min_delta

\* XSSScanner._differs, SQLiScanner._differs, IDORScanner._differs and
\* SSRFScanner._differs: four copies of the same text
_differs(baseline, resp) ==
    IF ~Truthy(baseline) THEN TRUE
    ELSE IF baseline.status_code # resp.status_code THEN TRUE
    ELSE Abs(baseline.text.len - resp.text.len) > 50

\* one call of the comparator and of its copy on the same arguments
Compare ==
    /\ ~cmp.done
    /\ cmp' = [cmp EXCEPT !.done = TRUE,
                          !.out = [response_differs |->
                                       response_differs(cmp.baseline, cmp.resp, DefaultMinDelta),
                                   _differs |-> _differs(cmp.baseline, cmp.resp)]]
    /\ UNCHANGED <<target, scopeVars, focusVars, policyVars, budgetVars, runVars,
                   probeVars, throttleVars>>

(***************************************************************************)
(* agents/triage_agent.py                                                  *)
(*                                                                         *)
(* A finding is a dict: a function from its keys to strings or lists.      *)
(* Literals of the program that play no part character by character        *)
(* (payloads, paths) are written as one-element strings.  Confidence is    *)
(* counted in hundredths.                                                  *)
(***************************************************************************)
\* dict.get(k, d)
Get(f, k, d) == IF k \in DOMAIN f THEN f[k] ELSE d

\* f[k] = v on a copy of f
SetKey(f, k, v) == [x \in DOMAIN f \cup {k} |-> IF x = k THEN v ELSE f[x]]

\* str.upper() on one character
UpperChar(c) ==
    CASE c = "a" -> "A"
      [] c = "b" -> "B"
      [] c = "c" -> "C"
      [] c = "d" -> "D"
      [] c = "e" -> "E"
      [] c = "f" -> "F"
      [] c = "g" -> "G"
      [] c = "h" -> "H"
      [] c = "i" -> "I"
      [] c = "j" -> "J"
      [] c = "k" -> "K"
      [] c = "l" -> "L"
      [] c = "m" -> "M"
      [] c = "n" -> "N"
      [] c = "o" -> "O"
      [] c = "p" -> "P"
      [] c = "q" -> "Q"
      [] c = "r" -> "R"
      [] c = "s" -> "S"
      [] c = "t" -> "T"
      [] c = "u" -> "U"
      [] c = "v" -> "V"
      [] c = "w" -> "W"
      [] c = "x" -> "X"
      [] c = "y" -> "Y"
      [] c = "z" -> "Z"
      [] OTHER   -> c

Upper(s) == [i \in 1..Len(s) |-> UpperChar(s[i])]

S_CRITICAL == <<"C", "R", "I", "T", "I", "C", "A", "L">>
S_HIGH     == <<"H", "I", "G", "H">>
S_MEDIUM   == <<"M", "E", "D", "I", "U", "M">>
S_LOW      == <<"L", "O", "W">>

\* "|".join(key_parts); the SHA-256 digest of two strings is equal exactly
\* when the strings are, so the joined string stands for its digest
_fingerprint(finding) ==
    Get(finding, "type", <<>>) \o <<"|">> \o Get(finding, "url", <<>>) \o <<"|">>
    \o Get(finding, "parameter", <<>>) \o <<"|">> \o Get(finding, "payload", <<>>)
    \o <<"|">> \o Get(finding, "issue", <<>>)

\* _score without the cap
_score_uncapped(finding) ==
    LET sev0 == Get(finding, "severity", <<>>)
        severity == Upper(IF sev0 # <<>> THEN sev0 ELSE S_MEDIUM)
        base == CASE severity = S_CRITICAL -> 90
                  [] severity = S_HIGH     -> 75
                  [] severity = S_MEDIUM   -> 50
                  [] severity = S_LOW      -> 30
                  [] OTHER                 -> 40
        ind0 == Get(finding, "indicators", <<>>)
        indicators == IF ind0 # <<>> THEN ind0 ELSE Get(finding, "details", <<>>)
    IN  IF indicators # <<>> THEN base + 10 ELSE base

\* _score(finding), in hundredths
_score(finding) ==
    LET sev0 == Get(finding, "severity", <<>>)
        severity == Upper(IF sev0 # <<>> THEN sev0 ELSE S_MEDIUM)
        base == CASE severity = S_CRITICAL -> 90
                  [] severity = S_HIGH     -> 75
                  [] severity = S_MEDIUM   -> 50
                  [] severity = S_LOW      -> 30
                  [] OTHER                 -> 40
        ind0 == Get(finding, "indicators", <<>>)
        indicators == IF ind0 # <<>> THEN ind0 ELSE Get(finding, "details", <<>>)
    IN  Min(IF indicators # <<>> THEN base + 10 ELSE base, 99)

RECURSIVE triage_loop(_, _, _)
\* the loop of triage_findings over the findings still to visit
triage_loop(findings, seen, out) ==
    IF findings = <<>> THEN out
    ELSE LET f  == Head(findings)
             fp == _fingerprint(f)
         IN  IF fp \in seen
             THEN triage_loop(Tail(findings), seen, out)
             ELSE triage_loop(Tail(findings), seen \cup {fp},
                              Append(out, SetKey(f, "confidence", _score(f))))

\* triage_findings(findings)
triage_findings(findings) == triage_loop(findings, {}, <<>>)

(***************************************************************************)
(* core/tech_router.py                                                     *)
(***************************************************************************)
PB_xss  == <<"x", "s", "s">>
PB_sqli == <<"s", "q", "l", "i">>
PB_idor == <<"i", "d", "o", "r">>
PB_ssrf == <<"s", "s", "r", "f">>
PB_auth == <<"a", "u", "t", "h">>

\* the dict TECH_TO_PLAYBOOKS, in the order of its items()
TECH_TO_PLAYBOOKS ==
    << <<<<"n", "e", "x", "t", ".", "j", "s">>, <<PB_auth, PB_ssrf, PB_idor, PB_xss>>>>,
       <<<<"r", "e", "a", "c", "t">>, <<PB_xss, PB_auth>>>>,
       <<<<"a", "n", "g", "u", "l", "a", "r">>, <<PB_xss, PB_auth>>>>,
       <<<<"v", "u", "e">>, <<PB_xss, PB_auth>>>>,
       <<<<"d", "j", "a", "n", "g", "o">>, <<PB_sqli, PB_auth, PB_idor>>>>,
       <<<<"f", "l", "a", "s", "k">>, <<PB_sqli, PB_auth, PB_idor>>>>,
       <<<<"e", "x", "p", "r", "e", "s", "s">>, <<PB_auth, PB_ssrf, PB_idor>>>>,
       <<<<"l", "a", "r", "a", "v", "e", "l">>, <<PB_sqli, PB_auth, PB_idor>>>>,
       <<<<"w", "o", "r", "d", "p", "r", "e", "s", "s">>, <<PB_auth, PB_idor, PB_xss>>>> >>

\* x in seq
In(x, seq) == \E i \in 1..Len(seq) : seq[i] = x

RECURSIVE route_pbs(_, _)
\* for pb in pbs: if pb not in selected: selected.append(pb)
route_pbs(pbs, selected) ==
    IF pbs = <<>> THEN selected
    ELSE route_pbs(Tail(pbs),
                   IF In(Head(pbs), selected) THEN selected ELSE Append(selected, Head(pbs)))

RECURSIVE route_items(_, _, _)
\* for tech_key, pbs in TECH_TO_PLAYBOOKS.items(): if tech_key in key: ...
route_items(items, key, selected) ==
    IF items = <<>> THEN selected
    ELSE route_items(Tail(items), key,
                     IF Contains(key, Head(items)[1])
                     THEN route_pbs(Head(items)[2], selected) ELSE selected)

RECURSIVE route_techs(_, _)
\* for t in tech_list: key = t.lower(); ...
route_techs(tech_list, selected) ==
    IF tech_list = <<>> THEN selected
    ELSE route_techs(Tail(tech_list),
                     route_items(TECH_TO_PLAYBOOKS, Lower(Head(tech_list)), selected))

\* route_playbooks(tech_list)
route_playbooks(tech_list) ==
    LET selected == route_techs(tech_list, <<>>)
    IN  IF selected = <<>> THEN <<PB_xss, PB_sqli, PB_auth, PB_idor>> ELSE selected

\* run_all_scanners: the playbook of a triaged finding's type is attached
\* when load_all_playbooks found one and the type is among the routed ones
attach_playbooks(fs, pbs, rt) ==
    [i \in 1..Len(fs) |->
        LET key == Lower(Get(fs[i], "type", <<>>))
        IN  IF key \in pbs /\ In(key, rt) THEN SetKey(fs[i], "playbook", key) ELSE fs[i]]

(***************************************************************************)
(* agents/vuln_scanners                                                    *)
(*                                                                         *)
(* responder is <<r0, r1, r2>>: r0 answers every request that carries no   *)
(* payload (the baseline and discovery requests, and all requests of the   *)
(* Auth scanner), r1 answers the first payload sent to an injection point  *)
(* and r2 every later one.  An answer is a response or the exception the   *)
(* request raises.  text.has names the evidence a body holds:              *)
(*   "payload"    the payload of the request, verbatim                     *)
(*   "sql_error"  a match of the error pattern SQL syntax.*MySQL           *)
(*   "id_href"    a link href="/user/7/"                                   *)
(*   "sensitive"  the word profile                                         *)
(*   "localhost"  the word localhost                                       *)
(*   "password"   the word password and neither minlength nor min-length   *)
(*   "invalid"    the word invalid                                         *)
(* A timestamp is <<injection point, request>>: utcnow() differs between   *)
(* any two requests.                                                       *)
(***************************************************************************)
ConnectionError == [py |-> "ConnectionError"]
Timeout == [py |-> "Timeout"]
Unbound == [py |-> "unbound"]

IsResponse(o) == "status_code" \in DOMAIN o

MissingSchema == [py |-> "MissingSchema"]

HttpPrefix  == <<"h", "t", "t", "p", ":", "/", "/">>
HttpsPrefix == <<"h", "t", "t", "p", "s", ":", "/", "/">>

\* requests sends to http:// and https:// URLs only; session.get and
\* session.post raise MissingSchema or InvalidSchema for any other
CanRequest(url) ==
    StartsWith(Lower(url), HttpPrefix) \/ StartsWith(Lower(url), HttpsPrefix)

\* urljoin(base, path) for a path that starts with "/": the scheme and the
\* network location of an http(s) base with the path, the path alone for a
\* base without a scheme
urljoin(base, path) ==
    IF ~CanRequest(base) THEN path
    ELSE LET from == IF StartsWith(Lower(base), HttpPrefix) THEN Len(HttpPrefix) + 1
                     ELSE Len(HttpsPrefix) + 1
             stop == FindAny(base, {"/", "?", "#"}, from)
             cut  == IF stop = 0 THEN Len(base) ELSE stop - 1
         IN  Lower(SubSeq(base, 1, from - 1)) \o SubSeq(base, from, cut) \o path

\* the answer to request i of the injection point at url, 0 for a request
\* without payload
Fetch(url, i) == IF CanRequest(url) THEN responder[Min(i, 2) + 1] ELSE MissingSchema

\* _baseline, _baseline_form, _baseline_params: the response, None when the
\* request raised
Baseline(url) == IF IsResponse(Fetch(url, 0)) THEN Fetch(url, 0) ELSE None

T_XSS  == <<"X", "S", "S">>
T_SQLi == <<"S", "Q", "L", "i">>
T_IDOR == <<"I", "D", "O", "R">>
T_SSRF == <<"S", "S", "R", "F">>
T_Auth == <<"A", "u", "t", "h">>

XssPayloads ==
    << <<"<script>alert(1)</script>">>, <<"<img src=x onerror=alert(1)>">>,
       <<"<svg/onload=alert(1)>">>, <<"javascript:alert(1)">>,
       <<"\"><script>alert(1)</script>">>, <<"'-alert(1)-'">>,
       <<"{{constructor.constructor('alert(1)')()}}">> >>

\* self.payloads[:3]
XssLimit == 3

RECURSIVE xss_payloads(_, _, _, _)
\* the payload loop of XSSScanner.scan_form and scan_params, from payload i
\* on; check_reflection never filters, since a response that holds the
\* payload holds each of its substrings
xss_payloads(url, pt, i, findings) ==
    IF i > XssLimit THEN findings
    ELSE LET resp    == Fetch(url, i)
             finding == [type |-> T_XSS, url |-> url, payload |-> XssPayloads[i],
                         severity |-> S_HIGH, timestamp |-> <<pt, i>>]
             hit     == /\ IsResponse(resp)
                        /\ "payload" \in resp.text.has
                        /\ _differs(Baseline(url), resp)
         IN  xss_payloads(url, pt, i + 1,
                          IF hit /\ ~In(finding, findings)
                          THEN Append(findings, finding) ELSE findings)

RECURSIVE xss_forms(_, _, _)
\* for form in self.forms: self.scan_form(form)
xss_forms(forms, pt, findings) ==
    IF forms = <<>> THEN findings
    ELSE xss_forms(Tail(forms), pt + 1,
                   IF Head(forms).inputs = <<>> THEN findings
                   ELSE xss_payloads(urljoin(target, Head(forms).action), pt, 1,
                                        findings))

RECURSIVE xss_endpoints(_, _, _)
\* for endpoint in self.endpoints[:20]: if parsed.query: self.scan_params(...)
xss_endpoints(endpoints, pt, findings) ==
    IF endpoints = <<>> THEN findings
    ELSE xss_endpoints(Tail(endpoints), pt + 1,
                       IF Head(endpoints).params = <<>> THEN findings
                       ELSE xss_payloads(Head(endpoints).url, pt, 1, findings))

\* XSSScanner(target, forms, endpoints).scan()
XSSScanner_scan ==
    xss_endpoints(SubSeq(crawl_data.endpoints, 1, Min(20, Len(crawl_data.endpoints))),
                  Len(crawl_data.forms) + 1, xss_forms(crawl_data.forms, 1, <<>>))

SqliPayloads ==
    << <<"' OR '1'='1">>, <<"' OR '1'='1' --">>, <<"' OR '1'='1' /*">>,
       <<"1' AND '1'='1">>, <<"1' AND '1'='1' --">>, <<"1' UNION SELECT NULL--">>,
       <<"1' UNION SELECT NULL,NULL--">>, <<"admin'--">>, <<"1' ORDER BY 1--">>,
       <<"'; WAITFOR DELAY '0:0:5'--">> >>

\* self.payloads[:5]
SqliLimit == 5

RECURSIVE sqli_payloads(_, _, _, _)
\* the payload loop of SQLiScanner.scan_form and scan_params with
\* check_errors, from payload i on
sqli_payloads(url, pt, i, findings) ==
    IF i > SqliLimit THEN findings
    ELSE LET resp    == Fetch(url, i)
             finding == [type |-> T_SQLi, subtype |-> <<"Error-Based">>, url |-> url,
                         payload |-> SqliPayloads[i],
                         error_pattern |-> <<"SQL syntax.*MySQL">>,
                         severity |-> S_CRITICAL, timestamp |-> <<pt, i>>]
             hit     == /\ IsResponse(resp)
                        /\ _differs(Baseline(url), resp)
                        /\ "sql_error" \in resp.text.has
         IN  sqli_payloads(url, pt, i + 1,
                           IF hit /\ ~In(finding, findings)
                           THEN Append(findings, finding) ELSE findings)

RECURSIVE sqli_forms(_, _, _)
\* for form in self.forms: self.scan_form(form)
sqli_forms(forms, pt, findings) ==
    IF forms = <<>> THEN findings
    ELSE sqli_forms(Tail(forms), pt + 1,
                    IF Head(forms).inputs = <<>> THEN findings
                    ELSE sqli_payloads(urljoin(target, Head(forms).action), pt, 1,
                                          findings))

RECURSIVE sqli_endpoints(_, _, _)
\* for endpoint in self.endpoints[:15]: if parsed.query: self.scan_params(...)
sqli_endpoints(endpoints, pt, findings) ==
    IF endpoints = <<>> THEN findings
    ELSE sqli_endpoints(Tail(endpoints), pt + 1,
                        IF Head(endpoints).params = <<>> THEN findings
                        ELSE sqli_payloads(Head(endpoints).url, pt, 1, findings))

\* SQLiScanner(target, forms, endpoints).scan()
SQLiScanner_scan ==
    sqli_endpoints(SubSeq(crawl_data.endpoints, 1, Min(15, Len(crawl_data.endpoints))),
                   Len(crawl_data.forms) + 1, sqli_forms(crawl_data.forms, 1, <<>>))

\* the link extract_idor_endpoints finds in a body that has "id_href"
IdorEndpoint == <<"/user", "/", "7", "/">>

\* extract_idor_endpoints(): one GET of the target; [] when it raised.  For
\* a body with the link, the first loop adds re.sub(pattern, "/7/", target),
\* which is the target itself as long as the target holds no "/name/digits",
\* and the second adds urljoin(target, href)
extract_idor_endpoints ==
    IF IsResponse(Fetch(target, 0)) /\ "id_href" \in Fetch(target, 0).text.has
    THEN <<target, urljoin(target, IdorEndpoint)>> ELSE <<>>

IdorTestIds == <<"1", "2", "0", "999", "admin">>

\* re.sub(r'/\d+/', f'/{test_id}/', endpoint)
idor_test_url(endpoint, test_id) ==
    [j \in 1..Len(endpoint) |->
        IF /\ 1 < j /\ j < Len(endpoint)
           /\ endpoint[j - 1] = "/" /\ endpoint[j + 1] = "/"
           /\ endpoint[j] \in {"0", "1", "2", "7", "999"}
        THEN test_id ELSE endpoint[j]]

RECURSIVE idor_ids(_, _, _, _)
\* the loop of IDORScanner.test_idor over the test ids, from the k-th on; it
\* returns on the first finding
idor_ids(endpoint, pt, k, findings) ==
    IF k > Len(IdorTestIds) THEN findings
    ELSE LET url     == idor_test_url(endpoint, IdorTestIds[k])
             resp    == Fetch(url, k)
             found_sensitive ==
                 IF IsResponse(resp)
                 THEN (IF "password" \in resp.text.has THEN <<"password">> ELSE <<>>)
                      \o (IF "sensitive" \in resp.text.has THEN <<"profile">> ELSE <<>>)
                 ELSE <<>>
             finding == [type |-> T_IDOR, url |-> url,
                         test_id |-> <<IdorTestIds[k]>>,
                         indicators |-> found_sensitive,
                         severity |-> S_HIGH, timestamp |-> <<pt, k>>]
             hit     == /\ IsResponse(resp)
                        /\ resp.status_code = 200
                        /\ _differs(Baseline(endpoint), resp)
                        /\ found_sensitive # <<>>
         IN  IF hit /\ ~In(finding, findings)
             THEN Append(findings, finding)
             ELSE idor_ids(endpoint, pt, k + 1, findings)

RECURSIVE idor_endpoints(_, _, _)
\* for endpoint in endpoints[:10]: self.test_idor(endpoint)
idor_endpoints(endpoints, pt, findings) ==
    IF endpoints = <<>> THEN findings
    ELSE idor_endpoints(Tail(endpoints), pt + 1,
                        idor_ids(Head(endpoints), pt, 1, findings))

\* IDORScanner(target).scan()
IDORScanner_scan ==
    idor_endpoints(SubSeq(extract_idor_endpoints, 1, Min(10, Len(extract_idor_endpoints))),
                   1, <<>>)

SsrfPayloads ==
    << <<"http://localhost/">>, <<"http://127.0.0.1/">>, <<"http://[::1]/">>,
       <<"http://0.0.0.0/">>, <<"http://metadata.aws.internal/">>,
       <<"http://169.254.169.254/latest/meta-data/">>,
       <<"http://metadata.google.internal/">> >>

\* self.ssrf_params
ssrf_params ==
    {<<p>> : p \in
      {"url", "uri", "src", "link", "redirect", "next", "data", "reference", "site",
      "html", "val", "validate", "domain", "callback", "return", "page", "feed",
      "host", "port", "to", "out", "view", "dir", "show", "navigation", "open",
      "file", "document", "folder", "pg", "style", "doc", "img", "source", "urlsrc",
      "u", "srcUrl"}}

\* the indicators test_ssrf_param reads off a response
ssrf_indicators(resp) ==
    (IF "localhost" \in resp.text.has THEN <<"localhost_reference">> ELSE <<>>)
    \o (IF "aws_metadata" \in resp.text.has THEN <<"aws_metadata">> ELSE <<>>)
    \o (IF "connection_refused" \in resp.text.has THEN <<"connection_refused">> ELSE <<>>)

RECURSIVE ssrf_payloads(_, _, _, _, _, _)
\* the payload loop of SSRFScanner.test_ssrf_param, from payload i on.
\* finding is the local variable of that name: Unbound until the first
\* assignment, and read by "if finding not in self.findings" after every
\* response, where an unbound name raises UnboundLocalError into the
\* "except Exception: pass" of the loop body
ssrf_payloads(url, param, pt, i, finding, findings) ==
    IF i > Len(SsrfPayloads) THEN findings
    ELSE LET resp  == Fetch(url, i)
             built == [type |-> T_SSRF, url |-> url, parameter |-> param,
                       payload |-> SsrfPayloads[i],
                       indicators |-> ssrf_indicators(resp),
                       severity |-> S_HIGH, timestamp |-> <<pt, i>>]
             timed == [type |-> T_SSRF, url |-> url, parameter |-> param,
                       payload |-> SsrfPayloads[i], indicator |-> <<"timeout">>,
                       severity |-> S_MEDIUM, timestamp |-> <<pt, i>>]
             f1    == IF resp = Timeout THEN timed
                      ELSE IF /\ IsResponse(resp)
                              /\ ssrf_indicators(resp) # <<>>
                              /\ _differs(Baseline(url), resp)
                           THEN built
                           ELSE finding
         IN  ssrf_payloads(url, param, pt, i + 1, f1,
                           IF resp = ConnectionError \/ f1 = Unbound \/ In(f1, findings)
                           THEN findings ELSE Append(findings, f1))

RECURSIVE ssrf_params_loop(_, _, _, _)
\* for param in params.keys(): if param.lower() in self.ssrf_params: ...
ssrf_params_loop(url, params, pt, findings) ==
    IF params = <<>> THEN findings
    ELSE ssrf_params_loop(url, Tail(params), pt + 1,
                          IF Lower(Head(params)) \in ssrf_params
                          THEN ssrf_payloads(url, Head(params), pt, 1, Unbound, findings)
                          ELSE findings)

RECURSIVE ssrf_endpoints(_, _, _)
\* for endpoint in self.endpoints[:20]: ...
ssrf_endpoints(endpoints, pt, findings) ==
    IF endpoints = <<>> THEN findings
    ELSE ssrf_endpoints(Tail(endpoints), pt + Len(Head(endpoints).params),
                        ssrf_params_loop(Head(endpoints).url, Head(endpoints).params,
                                         pt, findings))

\* SSRFScanner(target, endpoints).scan()
SSRFScanner_scan ==
    ssrf_endpoints(SubSeq(crawl_data.endpoints, 1, Min(20, Len(crawl_data.endpoints))),
                   1, <<>>)

LoginIndicators == << <<"/login">>, <<"/signin">>, <<"/auth">>, <<"/admin">> >>
ResetIndicators == << <<"/reset">>, <<"/forgot">>, <<"/password-reset">>, <<"/lost-password">> >>

\* the dict security_headers of check_weak_auth, in the order of its items()
security_headers ==
    << <<"Strict-Transport-Security", "HSTS_missing">>,
       <<"X-Frame-Options", "clickjacking_protection_missing">>,
       <<"X-Content-Type-Options", "nosniff_missing">>,
       <<"Content-Security-Policy", "csp_missing">> >>

RECURSIVE check_login_page(_, _)
\* AuthScanner.check_login_page, from the i-th path on
check_login_page(i, findings) ==
    IF i > Len(LoginIndicators) THEN findings
    ELSE LET url    == urljoin(target, LoginIndicators[i])
             resp   == Fetch(url, 0)
             issues == IF IsResponse(resp) /\ resp.status_code = 200
                       THEN (IF "http_form" \in resp.text.has
                             THEN <<"form_submits_http">> ELSE <<>>)
                            \o (IF "password" \in resp.text.has
                                THEN <<"no_min_password_length">> ELSE <<>>)
                       ELSE <<>>
             finding == [type |-> T_Auth, issue |-> <<"login_page_issues">>,
                         url |-> url, details |-> issues,
                         severity |-> S_MEDIUM, timestamp |-> <<1, i>>]
         IN  check_login_page(i + 1,
                              IF issues # <<>> THEN Append(findings, finding) ELSE findings)

RECURSIVE check_password_reset(_, _)
\* AuthScanner.check_password_reset, from the i-th path on; none of the
\* paths holds "?", so token_in_url is never reported
check_password_reset(i, findings) ==
    IF i > Len(ResetIndicators) THEN findings
    ELSE LET url    == urljoin(target, ResetIndicators[i])
             resp   == Fetch(url, 0)
             issues == IF /\ IsResponse(resp) /\ resp.status_code = 200
                          /\ "invalid" \in resp.text.has
                       THEN <<"possible_user_enum">> ELSE <<>>
             finding == [type |-> T_Auth, issue |-> <<"password_reset_issues">>,
                         url |-> url, details |-> issues,
                         severity |-> S_MEDIUM, timestamp |-> <<2, i>>]
         IN  check_password_reset(i + 1,
                                  IF issues # <<>> THEN Append(findings, finding)
                                  ELSE findings)

\* AuthScanner.check_weak_auth
check_weak_auth(findings) ==
    LET resp    == Fetch(target, 0)
        basic   == [type |-> T_Auth, issue |-> <<"basic_auth_enabled">>,
                    header |-> <<"Basic">>, severity |-> S_LOW, timestamp |-> <<3, 1>>]
        missing == SelectSeq(security_headers, LAMBDA h : h[1] \notin resp.headers)
        nohdrs  == [type |-> T_Auth, issue |-> <<"missing_security_headers">>,
                    missing |-> [j \in 1..Len(missing) |-> missing[j][2]],
                    severity |-> S_LOW, timestamp |-> <<3, 2>>]
    IN  IF ~IsResponse(resp) THEN findings
        ELSE (IF "WWW-Authenticate" \in resp.headers THEN Append(findings, basic)
              ELSE findings)
             \o (IF missing # <<>> THEN <<nohdrs>> ELSE <<>>)

\* AuthScanner.check_session: two fresh sessions fetch the target; a
\* response with "Set-Cookie" sets the same cookie each time
check_session(findings) ==
    LET resp1 == Fetch(target, 0)
        resp2 == Fetch(target, 0)
        static == [type |-> T_Auth, issue |-> <<"static_session_cookie">>,
                   severity |-> S_HIGH, timestamp |-> <<4, 1>>]
    IN  IF /\ IsResponse(resp1) /\ IsResponse(resp2)
           /\ "Set-Cookie" \in resp1.headers /\ "Set-Cookie" \in resp2.headers
        THEN Append(findings, static) ELSE findings

\* AuthScanner(target).scan(): the findings it returns when save_results
\* does not raise
AuthScanner_scan ==
    check_session(check_weak_auth(check_password_reset(1, check_login_page(1, <<>>))))

\* the scan() of a probe family, as run_all_scanners calls it
Scan(family) ==
    CASE family = "xss"  -> XSSScanner_scan
      [] family = "sqli" -> SQLiScanner_scan
      [] family = "idor" -> IDORScanner_scan
      [] family = "ssrf" -> SSRFScanner_scan
      [] family = "auth" -> AuthScanner_scan

(***************************************************************************)
(* The requests of a scan: the calls of session.get and session.post in    *)
(* the order scan() makes them.  Attempt(pt, i, url) is request i of       *)
(* injection point pt, 0 for the baseline request; the discovery request   *)
(* of the IDOR scanner is request 0 of point 0.                            *)
(***************************************************************************)
Attempt(pt, i, url) == [pt |-> pt, i |-> i, url |-> url]

\* point_requests with a second try for a payload request that raised
point_requests_retry(url, pt, n) ==
    LET tries[i \in 0..n] ==
            IF i = 0 THEN <<Attempt(pt, 0, url)>>
            ELSE tries[i - 1]
                 \o (IF IsResponse(Fetch(url, i)) THEN <<Attempt(pt, i, url)>>
                     ELSE <<Attempt(pt, i, url), Attempt(pt, i, url)>>)
    IN  tries[n]

\* _baseline_form / _baseline_params, then one request for each of the
\* first n payloads, each inside its own try/except that passes
point_requests(url, pt, n) ==
    <<Attempt(pt, 0, url)>> \o [i \in 1..n |-> Attempt(pt, i, url)]

RECURSIVE form_requests(_, _, _)
\* for form in self.forms: self.scan_form(form), in XSSScanner and SQLiScanner
form_requests(forms, pt, n) ==
    IF forms = <<>> THEN <<>>
    ELSE (IF Head(forms).inputs = <<>> THEN <<>>
          ELSE point_requests(urljoin(target, Head(forms).action), pt, n))
         \o form_requests(Tail(forms), pt + 1, n)

RECURSIVE endpoint_requests(_, _, _)
\* for endpoint in self.endpoints[:k]: if parsed.query: self.scan_params(...)
endpoint_requests(endpoints, pt, n) ==
    IF endpoints = <<>> THEN <<>>
    ELSE (IF Head(endpoints).params = <<>> THEN <<>>
          ELSE point_requests(Head(endpoints).url, pt, n))
         \o endpoint_requests(Tail(endpoints), pt + 1, n)

\* the requests of XSSScanner.scan()
XSSScanner_requests ==
    form_requests(crawl_data.forms, 1, XssLimit)
    \o endpoint_requests(SubSeq(crawl_data.endpoints, 1, Min(20, Len(crawl_data.endpoints))),
                         Len(crawl_data.forms) + 1, XssLimit)

\* the requests of SQLiScanner.scan()
SQLiScanner_requests ==
    form_requests(crawl_data.forms, 1, SqliLimit)
    \o endpoint_requests(SubSeq(crawl_data.endpoints, 1, Min(15, Len(crawl_data.endpoints))),
                         Len(crawl_data.forms) + 1, SqliLimit)

\* the test of test_idor that ends its loop: the k-th test id gave a finding
idor_hit(endpoint, k) ==
    LET resp == Fetch(idor_test_url(endpoint, IdorTestIds[k]), k)
    IN  /\ IsResponse(resp)
        /\ resp.status_code = 200
        /\ _differs(Baseline(endpoint), resp)
        /\ resp.text.has \cap {"password", "sensitive"} # {}

RECURSIVE idor_id_requests(_, _, _)
\* the requests of the loop of test_idor from the k-th test id on
idor_id_requests(endpoint, pt, k) ==
    IF k > Len(IdorTestIds) THEN <<>>
    ELSE <<Attempt(pt, k, idor_test_url(endpoint, IdorTestIds[k]))>>
         \o (IF idor_hit(endpoint, k) THEN <<>>
             ELSE idor_id_requests(endpoint, pt, k + 1))

RECURSIVE idor_endpoint_requests(_, _)
\* for endpoint in endpoints[:10]: self.test_idor(endpoint)
idor_endpoint_requests(endpoints, pt) ==
    IF endpoints = <<>> THEN <<>>
    ELSE <<Attempt(pt, 0, Head(endpoints))>>
         \o idor_id_requests(Head(endpoints), pt, 1)
         \o idor_endpoint_requests(Tail(endpoints), pt + 1)

\* the requests of IDORScanner.scan()
IDORScanner_requests ==
    <<Attempt(0, 0, target)>>
    \o idor_endpoint_requests(
           SubSeq(extract_idor_endpoints, 1, Min(10, Len(extract_idor_endpoints))), 1)

RECURSIVE ssrf_param_requests(_, _, _)
\* for param in params.keys(): if param.lower() in self.ssrf_params:
\* self.test_ssrf_param(endpoint, param)
ssrf_param_requests(url, params, pt) ==
    IF params = <<>> THEN <<>>
    ELSE (IF Lower(Head(params)) \in ssrf_params
          THEN point_requests(url, pt, Len(SsrfPayloads)) ELSE <<>>)
         \o ssrf_param_requests(url, Tail(params), pt + 1)

RECURSIVE ssrf_endpoint_requests(_, _)
\* for endpoint in self.endpoints[:20]: ...
ssrf_endpoint_requests(endpoints, pt) ==
    IF endpoints = <<>> THEN <<>>
    ELSE ssrf_param_requests(Head(endpoints).url, Head(endpoints).params, pt)
         \o ssrf_endpoint_requests(Tail(endpoints), pt + Len(Head(endpoints).params))

\* the requests of SSRFScanner.scan()
SSRFScanner_requests ==
    ssrf_endpoint_requests(
        SubSeq(crawl_data.endpoints, 1, Min(20, Len(crawl_data.endpoints))), 1)

\* the requests of the scan() of an injection-style probe family
Requests(family) ==
    CASE family = "xss"  -> XSSScanner_requests
      [] family = "sqli" -> SQLiScanner_requests
      [] family = "idor" -> IDORScanner_requests
      [] family = "ssrf" -> SSRFScanner_requests

\* AuthScanner.save_results opens OUTPUT_DIR/auth_<target>_<stamp>.json with
\* only the "." of the target replaced: a target that holds "/" names a file
\* in a directory that does not exist, open() raises FileNotFoundError and
\* so does scan().  The other scanners replace every such character
ScanRaises(family) == family = "auth" /\ Contains(target, <<"/">>)

(***************************************************************************)
(* The entry points: the __main__ blocks of swarm_orchestrator.py and      *)
(* vuln_scanner_orchestrator.py, with run_full_swarm and run_all_scanners. *)
(*                                                                         *)
(* trace records what the run did, in order:                               *)
(*   <<"start", p>>     phase p was started                                *)
(*   <<"requests", p>>  phase p sent its network requests                  *)
(*   <<"fail", p>>      phase p raised and the orchestrator caught it      *)
(*   <<"errors", p>>    an entry for p was appended to results["errors"]   *)
(*   <<"report", r>>    report r was written to the output directory       *)
(*   <<"raise", e>>     exception e left __main__ uncaught                 *)
(* An uncaught exception ends the process with status 1.                   *)
(***************************************************************************)
SwarmPhases   == <<"recon", "crawl", "enrichment">>
ProbeFamilies == <<"xss", "sqli", "idor", "ssrf", "auth">>

NotExited == -1

Running(at) == pc = at /\ exit = NotExited

Die(e) ==
    /\ trace' = Append(trace, <<"raise", e>>)
    /\ pc' = "exited"
    /\ exit' = 1

\* scope = ScopeConfig.load(default_scope_path())
MainScopeLoad ==
    /\ Running("start")
    /\ scope' = ScopeConfigLoad(scopeFile)
    /\ pc' = "scope"
    /\ UNCHANGED <<target, scanVars, scopeFile, scopeRes, focusVars, policyVars, budgetVars,
                   args, trace, exit>>

\* require_in_scope(scope, args.target)
MainRequireInScope ==
    /\ Running("scope")
    /\ scopeRes' = require_in_scope(scope, target)
    /\ IF scopeRes' = "ok"
       THEN /\ pc' = IF args.entry = "vuln" THEN "authz" ELSE "focus"
            /\ UNCHANGED <<trace, exit>>
       ELSE Die(scopeRes')
    /\ UNCHANGED <<target, scanVars, scopeFile, scope, focusVars, policyVars, budgetVars, args>>

\* vuln_scanner_orchestrator: require_authorized(args.authorized)
MainVulnAuthorized ==
    /\ Running("authz")
    /\ IF require_authorized(args.authorized) = "ok"
       THEN pc' = "focus" /\ UNCHANGED <<trace, exit>>
       ELSE Die(require_authorized(args.authorized))
    /\ UNCHANGED <<target, scanVars, scopeVars, focusVars, policyVars, budgetVars, args>>

\* focus = load_focus(.../configs/focus.yaml); require_focus_target(focus,
\* args.target); resolve_focus_target(focus); then the set-up up to the
\* first phase
MainRequireFocus ==
    /\ Running("focus")
    /\ focus' = load_focus(focusFile)
    /\ focusRes' = require_focus_target(focus', target, now)
    /\ IF focusRes' = "ok"
       THEN /\ resolved' = resolve_focus_target(focus', now)
            /\ pc' = IF args.entry = "vuln" THEN "scanners"
                     ELSE IF args.dry_run THEN "save_report" ELSE "mcp"
            /\ UNCHANGED <<trace, exit>>
       ELSE /\ Die(focusRes')
            /\ UNCHANGED resolved
    /\ UNCHANGED <<target, scanVars, scopeVars, focusFile, now, policyVars, budgetVars, args>>

\* run_full_swarm: the health checks of the configured MCP endpoints
MainMcpHealth ==
    /\ Running("mcp")
    /\ \E configured \in BOOLEAN :
          trace' = IF configured THEN Append(trace, <<"requests", "mcp">>) ELSE trace
    /\ pc' = "recon"
    /\ UNCHANGED <<target, scanVars, scopeVars, focusVars, policyVars, budgetVars, args, exit>>

\* run_full_swarm: one of the phases recon, crawl, enrichment inside its
\* try/except
MainSwarmPhase(i) ==
    /\ Running(SwarmPhases[i])
    /\ \E ok \in BOOLEAN :
          trace' = trace \o <<<<"start", SwarmPhases[i]>>, <<"requests", SwarmPhases[i]>>>>
                         \o (IF ok THEN <<>>
                             ELSE <<<<"fail", SwarmPhases[i]>>, <<"errors", SwarmPhases[i]>>>>)
    /\ pc' = IF i < Len(SwarmPhases) THEN SwarmPhases[i + 1] ELSE "save_report"
    /\ UNCHANGED <<target, scanVars, scopeVars, focusVars, policyVars, budgetVars, args, exit>>

\* orchestrator.save_report() and package_evidence()
MainSaveReport ==
    /\ Running("save_report")
    /\ trace' = Append(trace, <<"report", "swarm">>)
    /\ pc' = "vuln_gate"
    /\ UNCHANGED <<target, scanVars, scopeVars, focusVars, policyVars, budgetVars, args, exit>>

\* MainVulnGate with a technology list that reads None as no enrichment:
\* the scanners are built and run after a dry run too
MainVulnGate_reads_none ==
    /\ Running("vuln_gate")
    /\ IF args.run_vuln /\ args.profile # "passive"
       THEN IF require_authorized(args.authorized) # "ok"
            THEN Die(require_authorized(args.authorized))
            ELSE pc' = "xss" /\ UNCHANGED <<trace, exit>>
       ELSE pc' = "summary" /\ UNCHANGED <<trace, exit>>
    /\ UNCHANGED <<target, scanVars, scopeVars, focusVars, policyVars, budgetVars, args>>

\* swarm_orchestrator: if args.run_vuln and args.profile != "passive":
\* require_authorized, then the technology list read from
\* results["enrichment"], which is None after a dry run
MainVulnGate ==
    /\ Running("vuln_gate")
    /\ IF args.run_vuln /\ args.profile # "passive"
       THEN IF require_authorized(args.authorized) # "ok"
            THEN Die(require_authorized(args.authorized))
            ELSE IF args.dry_run
                 THEN Die("AttributeError")
                 ELSE pc' = "xss" /\ UNCHANGED <<trace, exit>>
       ELSE pc' = "summary" /\ UNCHANGED <<trace, exit>>
    /\ UNCHANGED <<target, scanVars, scopeVars, focusVars, policyVars, budgetVars, args>>

\* vuln_scanner_orchestrator: run_all_scanners(active_tests) up to the
\* first scanner
MainScanners ==
    /\ Running("scanners")
    /\ IF args.active_tests
       THEN pc' = "xss" /\ UNCHANGED trace
       ELSE pc' = "finish" /\ trace' = Append(trace, <<"report", "vuln">>)
    /\ UNCHANGED <<target, scanVars, scopeVars, focusVars, policyVars, budgetVars, args, exit>>

\* MainProbe with one try/except around all the scanners: the first scan()
\* that raises ends the scans
MainProbe_abort(i) ==
    /\ Running(ProbeFamilies[i])
    /\ \E ok \in BOOLEAN :
          /\ ScanRaises(ProbeFamilies[i]) => ~ok
          /\ trace' = trace \o <<<<"start", ProbeFamilies[i]>>, <<"requests", ProbeFamilies[i]>>>>
                            \o (IF ok THEN <<>> ELSE <<<<"fail", ProbeFamilies[i]>>>>)
          /\ scans' = IF ok THEN SetKey(scans, ProbeFamilies[i], Scan(ProbeFamilies[i]))
                      ELSE scans
          /\ pc' = IF ok /\ i < Len(ProbeFamilies) THEN ProbeFamilies[i + 1] ELSE "triage"
    /\ UNCHANGED <<target, cmpVars, throttleVars, responder, crawl_data, triaged,
                   tech_detected, playbooks, routed, scopeVars, focusVars, policyVars,
                   budgetVars, args, exit>>

\* run_all_scanners: one probe family's scan() inside its try/except
MainProbe(i) ==
    /\ Running(ProbeFamilies[i])
    /\ \E ok \in BOOLEAN :
          /\ ScanRaises(ProbeFamilies[i]) => ~ok
          /\ trace' = trace \o <<<<"start", ProbeFamilies[i]>>, <<"requests", ProbeFamilies[i]>>>>
                            \o (IF ok THEN <<>> ELSE <<<<"fail", ProbeFamilies[i]>>>>)
          /\ scans' = IF ok THEN SetKey(scans, ProbeFamilies[i], Scan(ProbeFamilies[i]))
                      ELSE scans
    /\ pc' = IF i < Len(ProbeFamilies) THEN ProbeFamilies[i + 1] ELSE "triage"
    /\ UNCHANGED <<target, cmpVars, throttleVars, responder, crawl_data, triaged,
                   tech_detected, playbooks, routed, scopeVars, focusVars, policyVars,
                   budgetVars, args, exit>>

RECURSIVE all_findings_from(_, _)
\* for _, findings in self.results["scans"].items(): all_findings.extend(findings);
\* the dict holds the families in the order the scanners ran
all_findings_from(sc, i) ==
    IF i > Len(ProbeFamilies) THEN <<>>
    ELSE (IF ProbeFamilies[i] \in DOMAIN sc THEN sc[ProbeFamilies[i]] ELSE <<>>)
         \o all_findings_from(sc, i + 1)

all_findings(sc) == all_findings_from(sc, 1)

\* run_all_scanners: triage, playbooks, save_report
MainTriage ==
    /\ Running("triage")
    /\ routed' = route_playbooks(tech_detected)
    /\ triaged' = attach_playbooks(triage_findings(all_findings(scans)), playbooks, routed')
    /\ trace' = trace \o <<<<"start", "triage">>, <<"report", "vuln">>>>
    /\ pc' = IF args.entry = "vuln" THEN "finish" ELSE "summary"
    /\ UNCHANGED <<target, cmpVars, throttleVars, responder, crawl_data, scans,
                   tech_detected, playbooks, scopeVars, focusVars, policyVars,
                   budgetVars, args, exit>>

\* swarm_orchestrator: the summary, which reads results["enrichment"] again,
\* and the OpenClaw schema validation
MainSummary ==
    /\ Running("summary")
    /\ IF args.dry_run
       THEN Die("AttributeError")
       ELSE \E outcome \in {"ok", "errors", "raise"} :
               /\ pc' = "exited"
               /\ exit' = CASE outcome = "ok" -> 0 [] outcome = "errors" -> 2 [] OTHER -> 1
               /\ trace' = IF outcome = "raise" THEN Append(trace, <<"raise", "Exception">>)
                           ELSE Append(trace, <<"report", "schema">>)
    /\ UNCHANGED <<target, scanVars, scopeVars, focusVars, policyVars, budgetVars, args>>

\* vuln_scanner_orchestrator: package_evidence and the summary
MainFinish ==
    /\ Running("finish")
    /\ pc' = "exited"
    /\ exit' = 0
    /\ UNCHANGED <<target, scanVars, scopeVars, focusVars, policyVars, budgetVars, args, trace>>

(***************************************************************************)
(* The requests of the probe families and the budget they wait for         *)
(*                                                                         *)
(* ScanRequests lists, for a scan with one injection point of a target     *)
(* that answers every request, the requests scan() sends in order, whether *)
(* the code calls self._budget.wait_for_budget() right before each and     *)
(* self._evidence.save_http() right after it.  budget is the instance      *)
(* from_env() returned last; grants counts the units granted at each time  *)
(* by any instance.                                                        *)
(***************************************************************************)
MaxPayloads == 1

\* a request of scan(): whether wait_for_budget() precedes it, the URL it
\* goes to and whether save_http() follows it
Req(kind, budgeted, url, saved) ==
    [kind |-> kind, budgeted |-> budgeted, url |-> url, saved |-> saved]

\* the target of the throttled scans, the URL of its form, the endpoint with
\* an id that the IDOR scanner extracts and the endpoint with a query
ThrottleTarget == HttpPrefix \o <<"t">>
FormUrl        == ThrottleTarget \o <<"/", "s">>
IdUrl          == ThrottleTarget \o <<"/", "u", "/", "7", "/">>
QueryUrl       == ThrottleTarget \o <<"/", "f", "?", "u", "=", "x">>

ScanRequests(family) ==
    CASE family = "xss" ->
           <<Req("baseline", TRUE, FormUrl, FALSE)>>
           \o [i \in 1..Min(XssLimit, MaxPayloads) |-> Req("payload", TRUE, FormUrl, TRUE)]
      [] family = "sqli" ->
           <<Req("baseline", TRUE, FormUrl, FALSE)>>
           \o [i \in 1..Min(SqliLimit, MaxPayloads) |-> Req("payload", TRUE, FormUrl, TRUE)]
      [] family = "idor" ->
           <<Req("discovery", FALSE, ThrottleTarget, FALSE), Req("baseline", TRUE, IdUrl, FALSE)>>
           \o [i \in 1..Min(Len(IdorTestIds), MaxPayloads) |->
                  Req("payload", TRUE, idor_test_url(IdUrl, IdorTestIds[i]), TRUE)]
      [] family = "ssrf" ->
           <<Req("baseline", TRUE, QueryUrl, FALSE)>>
           \o [i \in 1..Min(Len(SsrfPayloads), MaxPayloads) |->
                  Req("payload", TRUE, QueryUrl, TRUE)]
      [] family = "auth" ->
           [i \in 1..Len(LoginIndicators) |->
               Req("discovery", FALSE, urljoin(ThrottleTarget, LoginIndicators[i]), FALSE)]
           \o [i \in 1..Len(ResetIndicators) |->
                  Req("discovery", FALSE, urljoin(ThrottleTarget, ResetIndicators[i]), FALSE)]
           \o [i \in 1..3 |-> Req("discovery", FALSE, ThrottleTarget, FALSE)]

\* the scanners that call budget_from_env() in scan()
Budgeted == {"xss", "sqli", "idor", "ssrf"}

\* the window of from_env(), 60 seconds, in ticks
EnvWindow == MaxWindow

\* from_env() at time t
from_env(max_per_minute, t) == NewBudget(max_per_minute, EnvWindow, t)

\* scan() begins: self._budget = budget_from_env(), where the scanner has it
ScanBegin ==
    /\ scanner.family \in 1..Len(ProbeFamilies)
    /\ scanner.step = 0
    /\ budget' = IF ProbeFamilies[scanner.family] \in Budgeted
                 THEN from_env(scanner.max_per_minute, clock) ELSE budget
    /\ scanner' = [scanner EXCEPT !.step = 1]
    /\ UNCHANGED <<target, scopeVars, focusVars, policyVars, clock, callers, grants,
                   runVars, cmpVars, probeVars, sent>>

\* the request scan() is about to send
NextRequest == ScanRequests(ProbeFamilies[scanner.family])[scanner.step]

AtRequest ==
    /\ scanner.family \in 1..Len(ProbeFamilies)
    /\ scanner.step \in 1..Len(ScanRequests(ProbeFamilies[scanner.family]))

\* one iteration of the loop of self._budget.wait_for_budget()
WaitForBudget ==
    /\ AtRequest
    /\ NextRequest.budgeted
    /\ ~scanner.reserved
    /\ LET r == allow(budget, 1, clock)
       IN  /\ budget' = r.b
           /\ scanner' = [scanner EXCEPT !.reserved = r.ok]
           /\ grants' = IF r.ok THEN [grants EXCEPT ![clock] = @ + 1] ELSE grants
    /\ UNCHANGED <<target, scopeVars, focusVars, policyVars, clock, callers,
                   runVars, cmpVars, probeVars, sent>>

\* self.session.get / post, answered by the target, and the call of
\* self._evidence.save_http() where the code has one; stamp is the time of
\* that call at the resolution of the clock, 0 for a request without one
SendRequest ==
    /\ AtRequest
    /\ NextRequest.budgeted => scanner.reserved
    /\ sent' = Append(sent, [family |-> ProbeFamilies[scanner.family],
                             kind |-> NextRequest.kind,
                             reserved |-> scanner.reserved,
                             url |-> NextRequest.url,
                             saved |-> NextRequest.saved,
                             stamp |-> IF NextRequest.saved THEN clock ELSE 0])
    /\ scanner' = [scanner EXCEPT !.step = @ + 1, !.reserved = FALSE]
    /\ UNCHANGED <<target, scopeVars, focusVars, policyVars, budgetVars,
                   runVars, cmpVars, probeVars>>

\* scan() returns and run_all_scanners goes on to the next scanner
ScanEnd ==
    /\ scanner.family \in 1..Len(ProbeFamilies)
    /\ scanner.step = Len(ScanRequests(ProbeFamilies[scanner.family])) + 1
    /\ scanner' = [scanner EXCEPT !.family = @ + 1, !.step = 0]
    /\ UNCHANGED <<target, scopeVars, focusVars, policyVars, budgetVars,
                   runVars, cmpVars, probeVars, sent>>

(***************************************************************************)
(* core/evidence/store.py                                                  *)
(***************************************************************************)
LowerLetters == {"a", "b", "c", "d", "e", "f", "g", "h", "i", "j", "k", "l", "m",
                 "n", "o", "p", "q", "r", "s", "t", "u", "v", "w", "x", "y", "z"}
DigitChars == {"0", "1", "2", "3", "4", "5", "6", "7", "8", "9"}

\* ch.isalnum(); a test id of the IDOR scanner is alphanumeric throughout
IsAlnum(ch) ==
    \/ LowerChar(ch) \in LowerLetters \cup DigitChars
    \/ \E k \in 1..Len(IdorTestIds) : ch = IdorTestIds[k]

\* the length file names are cut to
NameLimit == 80

\* "".join(ch if ch.isalnum() or ch in "._-" else "_" for ch in url)[:80]
safe_name(url) ==
    [i \in 1..Min(Len(url), NameLimit) |->
        IF IsAlnum(url[i]) \/ url[i] \in {".", "_", "-"} THEN url[i] ELSE "_"]

\* the file save_http writes for a request: http_<stamp>_<safe>.json
evidence_path(r) == <<r.stamp, safe_name(r.url)>>

\* the evidence directory after the requests rs: for each file the position
\* in rs of the request whose record it holds, the last one written to it
evidence_files(rs) ==
    [f \in {evidence_path(rs[i]) : i \in {j \in 1..Len(rs) : rs[j].saved}} |->
        CHOOSE i \in 1..Len(rs) :
            /\ rs[i].saved /\ evidence_path(rs[i]) = f
            /\ \A j \in (i + 1)..Len(rs) : ~(rs[j].saved /\ evidence_path(rs[j]) = f)]

(***************************************************************************)
(* Inputs of the scope check                                               *)
(***************************************************************************)
MaxLabels == 3

HostLabels == {<<"a">>, <<"c">>, <<"e">>, <<"n", "a">>, <<"A">>}

RECURSIVE DottedNames(_)
DottedNames(k) ==
    IF k = 1 THEN HostLabels
    ELSE LET shorter == DottedNames(k - 1)
         IN  shorter \cup {l \o <<".">> \o h : l \in HostLabels, h \in shorter}

IpLike == { <<"1", ".", "0", ".", "0", ".", "5">>,
            <<"8", ".", "8", ".", "8", ".", "8">>,
            <<"1", "\\", ".", "0", "\\", ".", "0", "\\", ".", "5">> }

TargetPrefixes == { <<>>, <<"h", ":", "/", "/">>, <<"H", ":", "/", "/">>,
                    <<"h", ":", "/", "/", "u", "@">> }

TargetSuffixes == { <<>>, <<".">>, <<":", "8">>, <<"/", "p">>,
                    <<"/", ".", "a", ".", "c">>, <<" ">> }

Targets ==
    {p \o h \o s : p \in TargetPrefixes, h \in DottedNames(MaxLabels) \cup IpLike,
                   s \in TargetSuffixes} \cup {<<>>}

D_ac == <<"a", ".", "c">>
IP_1005 == <<"1", ".", "0", ".", "0", ".", "5">>

ScopeFiles ==
    {[kind |-> "missing", domains |-> <<>>, ips |-> <<>>],
     [kind |-> "invalid", domains |-> <<>>, ips |-> <<>>]}
    \cup [kind : {"ok"},
          domains : {<<>>, <<D_ac>>, << <<"A", ".", "C", ".">> >>, <<D_ac, <<"e", ".", "c">> >>},
          ips : {<<>>, <<IP_1005>>}]

IdleFocus == [enabled |-> FALSE, mode |-> <<>>, target |-> <<>>, days |-> 0,
              rotate_targets |-> <<>>, rotate_start |-> [kind |-> "empty", at |-> 0]]
IdleFocusFile == [kind |-> "missing", data |-> <<>>]
IdlePolicyFile == [kind |-> "missing", data |-> NoData]
IdlePolicy == [st |-> "none", code |-> 0, data |-> NoData]
IdleBudget == [max_requests |-> 0, window_seconds |-> 0, _window_start |-> 0, _count |-> 0]
IdleArgs == [entry |-> "none", authorized |-> FALSE, run_vuln |-> FALSE,
             profile |-> "cautious", dry_run |-> FALSE, active_tests |-> FALSE]

IdleCmp == [baseline |-> None, resp |-> None, done |-> FALSE,
            out |-> [response_differs |-> FALSE, _differs |-> FALSE]]
NoCrawlData == [forms |-> <<>>, endpoints |-> <<>>]
IdleScanner == [family |-> 0, step |-> 0, reserved |-> FALSE, max_per_minute |-> 0]

CmpIdle == cmp = IdleCmp
ProbeIdle ==
    /\ responder = <<>> /\ crawl_data = NoCrawlData /\ scans = <<>> /\ triaged = <<>>
    /\ tech_detected = <<>> /\ playbooks = {} /\ routed = <<>>
ThrottleIdle == scanner = IdleScanner /\ sent = <<>>
ScanIdle == CmpIdle /\ ProbeIdle /\ ThrottleIdle

FocusIdle  == focusFile = IdleFocusFile /\ focus = IdleFocus /\ now = 0 /\ focusRes = "none" /\ resolved = [st |-> "none", val |-> <<>>]
PolicyIdle == policyFile = IdlePolicyFile /\ policy = IdlePolicy
BudgetIdle == budget = IdleBudget /\ clock = 0 /\ callers = <<>> /\ grants = <<>>
RunIdle    == args = IdleArgs /\ pc = "idle" /\ trace = <<>> /\ exit = -1

InitScope ==
    /\ target \in Targets
    /\ scopeFile \in ScopeFiles
    /\ scope = NoScope
    /\ scopeRes = "none"
    /\ FocusIdle /\ PolicyIdle /\ BudgetIdle /\ RunIdle /\ ScanIdle

NextScope == ScopeLoad \/ RequireInScope

SpecScope == InitScope /\ [][NextScope]_vars

(***************************************************************************)
(* Inputs of the focus check                                               *)
(***************************************************************************)
MaxDay == 15
MaxNow == MaxDay * TicksPerDay

T_ec == <<"e", ".", "c">>

FocusDays == {-1, 0, 1, 7}

StartValues ==
    {[kind |-> "empty", at |-> 0], [kind |-> "invalid", at |-> 0],
     [kind |-> "naive", at |-> 0]}
    \cup [kind : {"aware"}, at : {0, 1, MaxNow + TicksPerDay}]

FocusConfigs ==
    [enabled : BOOLEAN,
     mode : {M_rotate, <<" ", "R", "o", "t", "a", "t", "e">>, M_single, <<>>},
     target : {<<>>, D_ac, <<" ", "A", ".", "c">>},
     days : FocusDays,
     rotate_targets : {<<>>, <<D_ac, T_ec>>, << <<" ", "A", ".", "C">>, <<" ">>, T_ec >>},
     rotate_start : StartValues]

FocusTargets == {D_ac, <<" ", "A", ".", "C", " ">>, T_ec, <<"h", ":", "/", "/", "a", ".", "c">>}

ScopeIdle == scopeFile = [kind |-> "missing", domains |-> <<>>, ips |-> <<>>]
             /\ scope = NoScope /\ scopeRes = "none"

InitFocus ==
    /\ target \in FocusTargets
    /\ focusFile = IdleFocusFile
    /\ focus \in FocusConfigs
    /\ now \in 0..MaxNow
    /\ focusRes = "none"
    /\ resolved = [st |-> "none", val |-> <<>>]
    /\ ScopeIdle /\ PolicyIdle /\ BudgetIdle /\ RunIdle /\ ScanIdle

NextFocus == ResolveFocus \/ RequireFocus

SpecFocus == InitFocus /\ [][NextFocus]_vars

\* a == b after trimming both, ignoring case
TrimmedEqIgnoreCase(a, b) ==
    LET x == Strip(a)
        y == Strip(b)
    IN  /\ Len(x) = Len(y)
        /\ \A i \in 1..Len(x) : LowerChar(x[i]) = LowerChar(y[i])

\* C8: with focus disabled every target is accepted; with focus enabled a
\* target is accepted exactly when it equals, trimmed and ignoring case, the
\* resolved focus target; every other target is rejected with an error, as is
\* every target when no focus target can be resolved.
C8_FocusAcceptsOnlyFocusTarget ==
    focusRes # "none" =>
        LET r == resolve_focus_target(focus, now)
        IN  /\ ~focus.enabled => focusRes = "ok"
            /\ focus.enabled =>
                 /\ (focusRes = "ok") <=>
                        (r.st = "ok" /\ r.val # <<>> /\ TrimmedEqIgnoreCase(target, r.val))
                 /\ focusRes \in {"ok", "ValueError", "TypeError"}

\* C8 witness: under an enabled focus a target was accepted that equals the
\* focus target only after trimming and lower-casing
C8_Witness ==
    /\ focus.enabled /\ focusRes = "ok"
    /\ target # Lower(Strip(target))

DaysElapsed == Max(0, TimedeltaDays(now, focus.rotate_start.at))

\* C9: in rotate mode with a non-empty target list and a valid rotate_start,
\* resolve_focus_target returns
\* rotate_targets[floor(days_elapsed / period) mod len(rotate_targets)],
\* days_elapsed being the whole days since rotate_start, never negative.
\* (Stated for an enabled focus, a period of at least one day and the list
\* without its blank entries.)
C9_RotationIndex ==
    LET ts == CleanTargets(focus.rotate_targets)
    IN  ( /\ resolved.st # "none"
          /\ focus.enabled
          /\ Lower(Strip(focus.mode)) = M_rotate
          /\ ts # <<>>
          /\ focus.rotate_start.kind \in {"naive", "aware"}
          /\ focus.days >= 1 )
        => /\ resolved.st = "ok"
           /\ resolved.val = ts[((DaysElapsed \div focus.days) % Len(ts)) + 1]

(***************************************************************************)
(* Inputs of load_policy                                                   *)
(***************************************************************************)
MaxListLen == 2

ListValues ==
    [t : {"absent", "null", "str", "dict"}, len : {0}] \cup [t : {"list"}, len : 0..MaxListLen]

AllowValues ==
    [t : {"absent", "null", "str", "list"},
     targets : {[t |-> "absent", len |-> 0]}, actions : {[t |-> "absent", len |-> 0]}]
    \cup [t : {"dict"}, targets : ListValues, actions : ListValues]

PolicyData ==
    {[t |-> k, version |-> "absent",
      allow |-> [t |-> "absent", targets |-> [t |-> "absent", len |-> 0],
                                 actions |-> [t |-> "absent", len |-> 0]],
      deny |-> "absent"] : k \in {"null", "str", "list"}}
    \cup [t : {"dict"},
          version : {"absent", "str", "int", "float", "bool", "null", "list"},
          allow : AllowValues,
          deny : {"absent", "null", "dict", "str", "list"}]

PolicyFiles ==
    [kind : {"missing", "unreadable", "badyaml"}, data : {NoData}]
    \cup [kind : {"parsed"}, data : PolicyData]

InitPolicy ==
    /\ policyFile \in PolicyFiles
    /\ policy = IdlePolicy
    /\ target = <<>>
    /\ ScopeIdle /\ FocusIdle /\ BudgetIdle /\ RunIdle /\ ScanIdle

NextPolicy == LoadPolicy

SpecPolicy == InitPolicy /\ [][NextPolicy]_vars

NonEmptyList(v) == v.t = "list" /\ v.len > 0

\* the defects the claim lists (a deny key holding null is counted as absent)
ListedDefect(f) ==
    \/ f.kind # "parsed"
    \/ f.data.t # "dict"
    \/ f.data.version = "absent"
    \/ f.data.allow.t # "dict"
    \/ ~NonEmptyList(f.data.allow.targets)
    \/ ~NonEmptyList(f.data.allow.actions)
    \/ f.data.deny \notin {"absent", "null", "dict"}

\* the defects load_policy rejects: the listed ones and a version that is
\* neither a string nor a number
Defect(f) ==
    \/ ListedDefect(f)
    \/ f.data.version \notin {"str", "int", "float", "bool"}

InitBudget ==
    /\ clock = 0
    /\ \E m \in 0..MaxRequests, w \in 1..MaxWindow : budget = NewBudget(m, w, 0)
    /\ callers = [c \in Callers |-> [pc |-> "idle", n |-> 1, denied |-> FALSE]]
    /\ grants = [t \in 0..MaxClock |-> 0]
    /\ target = <<>>
    /\ ScopeIdle /\ FocusIdle /\ PolicyIdle /\ RunIdle /\ ScanIdle

NextBudget ==
    \/ \E c \in Callers, n \in 1..MaxUnits : Call(c, n)
    \/ \E c \in Callers : Poll(c)
    \/ Tick

SpecBudget == InitBudget /\ [][NextBudget]_vars

(***************************************************************************)
(* One caller of wait_for_budget, as in a run: the scanners call it one    *)
(* after the other from one thread.  The loop always takes its next        *)
(* iteration and time always passes.                                       *)
(***************************************************************************)
NextWait ==
    \/ \E n \in 1..MaxUnits : Call(1, n)
    \/ Poll(1)
    \/ TimePasses

SpecWait == InitBudget /\ [][NextWait]_vars /\ WF_vars(Poll(1)) /\ WF_vars(TimePasses)

RECURSIVE UnitsSince(_, _)
\* the units granted at or after time t
UnitsSince(g, t) ==
    IF t > MaxClock THEN 0 ELSE g[t] + UnitsSince(g, t + 1)

\* the units granted in the window that is open at the current time
UnitsInOpenWindow ==
    IF clock - budget._window_start >= budget.window_seconds THEN 0
    ELSE UnitsSince(grants, budget._window_start)

BudgetCountInv ==
    /\ 0 <= budget._count
    /\ budget._count <= budget.max_requests
    /\ UnitsSince(grants, budget._window_start) = budget._count

\* some caller returns from wait_for_budget in this step
Returns(c) == callers[c].pc = "waiting" /\ callers'[c].pc = "idle"

\* some caller runs one iteration of the wait loop in this step
Polls(c) == callers[c].pc = "waiting" /\ (budget' # budget \/ callers' # callers)

BudgetStep ==
    \A c \in Callers :
        \* a single-unit acquire that finds fewer than M units granted in the
        \* open window returns at once
        /\ ( /\ callers[c].pc = "waiting" /\ callers[c].n = 1
             /\ callers'[c] # callers[c]
             /\ UnitsInOpenWindow < budget.max_requests )
           => Returns(c)
        \* an acquire made when the window is full returns only once the
        \* window has elapsed, and is then granted in the fresh window
        /\ ( /\ Returns(c)
             /\ budget._count + callers[c].n > budget.max_requests )
           => /\ clock - budget._window_start >= budget.window_seconds
              /\ budget'._window_start = clock
              /\ budget'._count = callers[c].n

\* C10: whatever the interleaving of callers, 0 <= count <= M and the units
\* granted in one window never exceed M; the first M single-unit acquires of
\* a window return immediately, and an acquire that finds the window full
\* returns only when now - window_start >= W, granted in the fresh window.
C10_BudgetWindow == []BudgetCountInv /\ [][BudgetStep]_vars

\* C10 witness: a caller that was refused in a full window has been granted
\* its unit in a later window
C10_Witness ==
    \E c \in Callers :
        /\ callers[c].pc = "idle" /\ callers[c].denied
        /\ budget._window_start > 0
        /\ budget._count = budget.max_requests
        /\ UnitsSince(grants, 0) > budget.max_requests

(***************************************************************************)
(* Inputs of the comparator                                                *)
(***************************************************************************)
Page(status, len, has, headers) ==
    [status_code |-> status, text |-> [len |-> len, has |-> has], headers |-> headers]

CmpResponses == {Page(s, n, {}, {}) : s \in {200, 404}, n \in {0, 50, 51, 120}}

InitCompare ==
    /\ cmp \in [baseline : CmpResponses \cup {None}, resp : CmpResponses,
                done : {FALSE}, out : {IdleCmp.out}]
    /\ target = <<>>
    /\ ScopeIdle /\ FocusIdle /\ PolicyIdle /\ BudgetIdle /\ RunIdle
    /\ ProbeIdle /\ ThrottleIdle

NextCompare == Compare

SpecCompare == InitCompare /\ [][NextCompare]_vars

(***************************************************************************)
(* Inputs of the scans: run_all_scanners from its first scanner on         *)
(***************************************************************************)
Evidence == {"payload", "sql_error", "id_href", "sensitive", "localhost", "password",
             "invalid"}

AllSecurityHeaders == {security_headers[j][1] : j \in 1..Len(security_headers)}

\* a page without evidence that sets every security header, and pages that
\* hold every evidence, set a cookie and no security header
ProbeResponses ==
    {Page(s, 100, {}, AllSecurityHeaders) : s \in {200, 500}}
    \cup {Page(s, n, Evidence, {"Set-Cookie"}) : s \in {200, 500}, n \in {120, 400}}

Answers == ProbeResponses \cup {ConnectionError, Timeout}

Responders == {<<r0, r1, r2>> : r0 \in Answers, r1 \in Answers, r2 \in Answers}

\* one form with a single text field, and one endpoint with one query
\* parameter
OneForm == [action |-> <<"/search">>, method |-> "GET", inputs |-> <<"q">>]
OneEndpoint == [url |-> HttpPrefix \o <<"t", "/fetch?url=x">>,
                params |-> << <<"url">> >>]
CrawlData == {NoCrawlData, [forms |-> <<OneForm>>, endpoints |-> <<>>],
              [forms |-> <<OneForm>>, endpoints |-> <<OneEndpoint>>]}

\* a target with a scheme, as the scanners' requests need it, and a bare host
ProbeTargets == {HttpPrefix \o <<"t">>, <<"t">>}

AllPlaybooks == {PB_xss, PB_sqli, PB_idor, PB_ssrf, PB_auth}

ScanArgs == [entry |-> "vuln", authorized |-> TRUE, run_vuln |-> FALSE,
             profile |-> "cautious", dry_run |-> FALSE, active_tests |-> TRUE]

InitProbe ==
    /\ responder \in Responders
    /\ crawl_data \in CrawlData
    /\ scans = <<>> /\ triaged = <<>> /\ routed = <<>>
    /\ tech_detected = <<>>
    /\ playbooks = AllPlaybooks
    /\ args = ScanArgs /\ pc = "xss" /\ trace = <<>> /\ exit = NotExited
    /\ target \in ProbeTargets
    /\ ScopeIdle /\ FocusIdle /\ PolicyIdle /\ BudgetIdle
    /\ CmpIdle /\ ThrottleIdle

NextProbe ==
    \/ \E i \in 1..Len(ProbeFamilies) : MainProbe(i)
    \/ MainTriage
    \/ MainFinish

SpecProbe == InitProbe /\ [][NextProbe]_vars

(***************************************************************************)
(* Inputs of triage and routing: run_all_scanners from triage on           *)
(***************************************************************************)
MaxFindings == 2

Absent == "absent"

\* a dict with the keys whose value is not Absent
Dict(kv) == [k \in {x \in DOMAIN kv : kv[x] # <<Absent>>} |-> kv[k]]

U_plain == <<"u">>
U_bar   == <<"u", "|", "p">>
P_bar   == <<"p", "|">>

\* findings that differ in the fields of the fingerprint
TupleFindings ==
    {Dict([type |-> T_XSS, url |-> u, parameter |-> p, severity |-> S_HIGH]) :
        u \in {U_plain, U_bar}, p \in {<<Absent>>, <<>>, P_bar}}

Severities ==
    {<<Absent>>, <<>>, S_CRITICAL, S_HIGH, <<"h", "i", "g", "h">>, S_MEDIUM, S_LOW,
     <<"I", "N", "F", "O">>}

\* what a finding carries as corroboration: nothing, indicators, an empty
\* indicators list with details, the "indicator" string of the SSRF timeout
\* finding, the "missing" list of check_weak_auth
Corroborations ==
    {[indicators |-> <<Absent>>, details |-> <<Absent>>, indicator |-> <<Absent>>,
      missing |-> <<Absent>>],
     [indicators |-> <<"localhost_reference">>, details |-> <<Absent>>,
      indicator |-> <<Absent>>, missing |-> <<Absent>>],
     [indicators |-> <<>>, details |-> <<"no_min_password_length">>,
      indicator |-> <<Absent>>, missing |-> <<Absent>>],
     [indicators |-> <<Absent>>, details |-> <<Absent>>, indicator |-> <<"timeout">>,
      missing |-> <<Absent>>],
     [indicators |-> <<Absent>>, details |-> <<Absent>>, indicator |-> <<Absent>>,
      missing |-> <<"csp_missing">>]}

\* findings that differ in what the score reads
ScoredFindings ==
    {Dict([type |-> T_SSRF, url |-> U_plain, severity |-> s, indicators |-> c.indicators,
           details |-> c.details, indicator |-> c.indicator, missing |-> c.missing]) :
        s \in Severities, c \in Corroborations}

RawFindings == TupleFindings \cup ScoredFindings

RECURSIVE ListsUpTo(_, _)
\* the lists of at most n elements of S
ListsUpTo(S, n) ==
    IF n = 0 THEN {<<>>}
    ELSE LET shorter == ListsUpTo(S, n - 1)
         IN  shorter \cup {Append(l, x) : l \in {m \in shorter : Len(m) = n - 1}, x \in S}

T_React  == <<"R", "e", "a", "c", "t">>
T_nginx  == <<"n", "g", "i", "n", "x">>
T_Django == <<"D", "j", "a", "n", "g", "o", " ", "4">>

TechLists == {<<>>, <<T_nginx>>, <<T_React>>, <<T_nginx, T_Django>>, <<T_React, T_Django>>}

\* one finding of each family
OneOfEach ==
    [j \in 1..5 |-> [type |-> <<T_XSS, T_SQLi, T_IDOR, T_SSRF, T_Auth>>[j],
                     url |-> U_plain, severity |-> S_HIGH]]

InitTriage ==
    /\ \/ /\ \E fs \in ListsUpTo(RawFindings, MaxFindings) : scans = SetKey(<<>>, "xss", fs)
          /\ tech_detected = <<>>
          /\ playbooks = AllPlaybooks
       \/ /\ scans = SetKey(<<>>, "xss", OneOfEach)
          /\ tech_detected \in TechLists
          /\ playbooks \in {{}, AllPlaybooks}
    /\ responder = <<>> /\ crawl_data = NoCrawlData
    /\ triaged = <<>> /\ routed = <<>>
    /\ args = ScanArgs /\ pc = "triage" /\ trace = <<>> /\ exit = NotExited
    /\ target = <<>>
    /\ ScopeIdle /\ FocusIdle /\ PolicyIdle /\ BudgetIdle
    /\ CmpIdle /\ ThrottleIdle

NextTriage == MainTriage \/ MainFinish

SpecTriage == InitTriage /\ [][NextTriage]_vars

(***************************************************************************)
(* Inputs of the throttled scans                                           *)
(***************************************************************************)
InitThrottle ==
    /\ \E m \in 1..MaxRequests :
          scanner = [family |-> 1, step |-> 0, reserved |-> FALSE, max_per_minute |-> m]
    /\ sent = <<>>
    /\ budget = IdleBudget /\ clock = 0 /\ callers = <<>>
    /\ grants = [t \in 0..MaxClock |-> 0]
    /\ target = <<>>
    /\ ScopeIdle /\ FocusIdle /\ PolicyIdle /\ RunIdle
    /\ CmpIdle /\ ProbeIdle

NextThrottle ==
    \/ ScanBegin
    \/ WaitForBudget
    \/ SendRequest
    \/ ScanEnd
    \/ Tick

SpecThrottle == InitThrottle /\ [][NextThrottle]_vars

(***************************************************************************)
(* The scans to their end: every budget size budget.yaml can configure,    *)
(* time without bound.  The scans run one after the other in one thread,   *)
(* which always takes its next step, and time always passes.               *)
(***************************************************************************)
InitTerminate ==
    /\ \E m \in 0..MaxRequests :
          scanner = [family |-> 1, step |-> 0, reserved |-> FALSE, max_per_minute |-> m]
    /\ sent = <<>>
    /\ budget = IdleBudget /\ clock = 0 /\ callers = <<>>
    /\ grants = [t \in 0..MaxClock |-> 0]
    /\ target = <<>>
    /\ ScopeIdle /\ FocusIdle /\ PolicyIdle /\ RunIdle
    /\ CmpIdle /\ ProbeIdle

ScanStep == ScanBegin \/ WaitForBudget \/ SendRequest \/ ScanEnd

NextTerminate ==
    \/ ScanBegin
    \/ WaitForBudget
    \/ SendRequest
    \/ ScanEnd
    \/ TimePasses

SpecTerminate ==
    InitTerminate /\ [][NextTerminate]_vars /\ WF_vars(ScanStep) /\ WF_vars(TimePasses)

(***************************************************************************)
(* Runs of the two entry points                                            *)
(***************************************************************************)
T_bypass == <<"e", ".", "c", "/", ".", "a", ".", "c">>

\* the URL of a host in scope: the scanners' requests need the scheme
T_url == <<"h", "t", "t", "p", ":", "/", "/", "a", ".", "c">>

RunTargets == {D_ac, <<"A", ".", "c">>, T_ec, T_bypass, T_url}

RunScopeFiles ==
    {[kind |-> "missing", domains |-> <<>>, ips |-> <<>>],
     [kind |-> "ok", domains |-> <<D_ac>>, ips |-> <<>>]}

RunFocus ==
    [enabled : BOOLEAN, mode : {M_single}, target : {D_ac, T_ec}, days : {DefaultDays},
     rotate_targets : {<<>>}, rotate_start : {[kind |-> "empty", at |-> 0]}]
    \cup
    {[enabled |-> TRUE, mode |-> M_rotate, target |-> D_ac, days |-> 7,
      rotate_targets |-> <<D_ac, T_ec>>, rotate_start |-> [kind |-> k, at |-> 0]] :
        k \in {"naive", "aware"}}

ValidPolicyData ==
    [t |-> "dict", version |-> "str",
     allow |-> [t |-> "dict", targets |-> [t |-> "list", len |-> 1],
                              actions |-> [t |-> "list", len |-> 1]],
     deny |-> "absent"]

RunPolicyFiles ==
    {[kind |-> "missing", data |-> NoData],
     [kind |-> "parsed", data |-> ValidPolicyData],
     [kind |-> "parsed", data |-> [ValidPolicyData EXCEPT !.allow.targets.len = 0]]}

RunArgs ==
    [entry : {"swarm"}, authorized : BOOLEAN, run_vuln : BOOLEAN,
     profile : {"passive", "cautious", "active"}, dry_run : BOOLEAN, active_tests : {FALSE}]
    \cup
    [entry : {"vuln"}, authorized : BOOLEAN, run_vuln : {FALSE},
     profile : {"cautious"}, dry_run : {FALSE}, active_tests : BOOLEAN]

\* a target whose pages hold every evidence; neither entry point hands
\* crawl data to VulnScannerOrchestrator
RunResponder ==
    <<Page(200, 120, Evidence, {"Set-Cookie"}), Page(200, 400, Evidence, {"Set-Cookie"}),
      Page(200, 400, Evidence, {"Set-Cookie"})>>

InitRun ==
    /\ args \in RunArgs
    /\ target \in RunTargets
    /\ scopeFile \in RunScopeFiles
    /\ scope = NoScope /\ scopeRes = "none"
    /\ focusFile \in {[kind |-> "ok", data |-> f] : f \in RunFocus}
    /\ focus = IdleFocus
    /\ now = 0 /\ focusRes = "none" /\ resolved = [st |-> "none", val |-> <<>>]
    /\ policyFile \in RunPolicyFiles
    /\ policy = IdlePolicy
    /\ BudgetIdle
    /\ pc = "start" /\ trace = <<>> /\ exit = NotExited
    /\ responder = RunResponder /\ crawl_data = NoCrawlData
    /\ scans = <<>> /\ triaged = <<>> /\ routed = <<>>
    /\ tech_detected = <<>> /\ playbooks = AllPlaybooks
    /\ CmpIdle /\ ThrottleIdle

NextRun ==
    \/ MainScopeLoad
    \/ MainRequireInScope
    \/ MainVulnAuthorized
    \/ MainRequireFocus
    \/ MainMcpHealth
    \/ \E i \in 1..Len(SwarmPhases) : MainSwarmPhase(i)
    \/ MainSaveReport
    \/ MainVulnGate
    \/ MainScanners
    \/ \E i \in 1..Len(ProbeFamilies) : MainProbe(i)
    \/ MainTriage
    \/ MainSummary
    \/ MainFinish

SpecRun == InitRun /\ [][NextRun]_vars

(***************************************************************************)
(* Runs of the two entry points up to the end of the gate, with scope and  *)
(* focus files that are missing or do not parse                            *)
(***************************************************************************)
GateScopeFiles ==
    [kind : {"missing", "unparsable", "ok"}, domains : {<<D_ac>>}, ips : {<<>>}]

\* what the focus file holds, or was meant to hold: a lock on one target
GateFocusData ==
    {[enabled |-> e, target |-> t] : e \in BOOLEAN, t \in {D_ac, T_ec}}

GateFocusFiles ==
    {[kind |-> "missing", data |-> [enabled |-> FALSE, target |-> <<>>]]}
    \cup [kind : {"unparsable", "ok"}, data : GateFocusData]

InitGate ==
    /\ args \in RunArgs
    /\ target \in RunTargets
    /\ scopeFile \in GateScopeFiles
    /\ scope = NoScope /\ scopeRes = "none"
    /\ focusFile \in GateFocusFiles
    /\ focus = IdleFocus
    /\ now = 0 /\ focusRes = "none" /\ resolved = [st |-> "none", val |-> <<>>]
    /\ PolicyIdle /\ BudgetIdle
    /\ pc = "start" /\ trace = <<>> /\ exit = NotExited
    /\ ScanIdle

NextGate ==
    \/ MainScopeLoad
    \/ MainRequireInScope
    \/ MainVulnAuthorized
    \/ MainRequireFocus

SpecGate == InitGate /\ [][NextGate]_vars

Did(kinds) == \E i \in 1..Len(trace) : trace[i][1] \in kinds

Range(q) == {q[i] : i \in 1..Len(q)}

ProbeStarted ==
    \E i \in 1..Len(trace) :
        trace[i][1] \in {"start", "requests"} /\ trace[i][2] \in Range(ProbeFamilies)

\* C2: no network request is issued unless the policy file has been loaded
\* and has passed schema validation, and a run with a missing or invalid
\* policy ends with a nonzero status and no request issued.
C2_NoRequestWithoutPolicy ==
    /\ Did({"requests"}) => policy.st = "returned"
    /\ (pc = "exited" /\ Defect(policyFile)) => (exit # 0 /\ ~Did({"requests"}))

\* C3: without the authorization acknowledgment no probe family is started
\* and none sends a request, in either entry point.
C3_NoProbeWithoutAck == ProbeStarted => args.authorized

\* C3 witness: the swarm run asked for the scans without --authorized and
\* ended at require_authorized
C3_Witness ==
    /\ args.entry = "swarm" /\ args.run_vuln /\ ~args.authorized
    /\ pc = "exited" /\ exit = 1
    /\ trace[Len(trace)] = <<"raise", "PermissionError">>

\* C4: no phase starts and no request or report is produced before the
\* target has passed the scope check and the focus check, and a rejection by
\* either ends the run with status 1 and nothing started.
C4_GateBeforePhases ==
    /\ Did({"start", "requests", "report"}) =>
          /\ in_scope(scope, target)
          /\ require_focus_target(focus, target, now) = "ok"
    /\ (scopeRes \notin {"none", "ok"} \/ focusRes \notin {"none", "ok"}) =>
          /\ pc = "exited" /\ exit = 1
          /\ ~Did({"start", "requests", "report"})

\* C4 witness: a target in scope but outside the focus lock was rejected
C4_Witness ==
    /\ scopeRes = "ok" /\ focusRes = "ValueError"
    /\ pc = "exited" /\ exit = 1
    /\ trace = <<<<"raise", "ValueError">>>>

ActiveProbingRequested ==
    \/ args.entry = "vuln"
    \/ args.entry = "swarm" /\ args.run_vuln /\ args.profile # "passive"

\* C5: when active probing is requested without the acknowledgment, the run
\* ends with a nonzero status, and no request and no report precede that.
C5_NoOutputWithoutAck ==
    (ActiveProbingRequested /\ ~args.authorized /\ pc = "exited") =>
        /\ exit # 0
        /\ ~Did({"requests", "report"})

(***************************************************************************)
(* The host a target names: scheme, userinfo, port, path, query, fragment  *)
(* and trailing dots removed, lower-cased (swarm_orchestrator.py derives   *)
(* the host of a bare target the same way).                                *)
(***************************************************************************)
HostOf(t) ==
    LET s0   == Strip(t)
        k    == IF Contains(s0, <<":", "/", "/">>)
                THEN CHOOSE i \in 1..Len(s0) :
                        /\ SubSeq(s0, i, i + 2) = <<":", "/", "/">>
                        /\ \A j \in 1..(i - 1) : SubSeq(s0, j, j + 2) # <<":", "/", "/">>
                ELSE 0
        s1   == IF k = 0 THEN s0 ELSE SubSeq(s0, k + 3, Len(s0))
        auth == SubSeq(s1, 1, FindAny(s1, {"/", "?", "#"}, 1) - 1)
        hp   == SubSeq(auth, RFind(auth, "@") + 1, Len(auth))
        h    == SubSeq(hp, 1, FindAny(hp, {":"}, 1) - 1)
    IN  RStripDot(Lower(Strip(h)))

\* dotted quad of one to three digits each
IsIPv4Literal(h) ==
    \E a, b, c \in 2..(Len(h) - 1) :
        /\ a < b /\ b < c
        /\ h[a] = "." /\ h[b] = "." /\ h[c] = "."
        /\ \A i \in 1..Len(h) : i \notin {a, b, c} => h[i] \in Digits
        /\ a - 1 \in 1..3 /\ b - a - 1 \in 1..3 /\ c - b - 1 \in 1..3 /\ Len(h) - c \in 1..3

ListedDomain(cfg, h) ==
    \E i \in 1..Len(cfg.domains) :
        h = cfg.domains[i] \/ EndsWith(h, <<".">> \o cfg.domains[i])

\* C6: for a domain-name target, in_scope is true exactly when the target's
\* host (lower-cased, without scheme, port, path and trailing dot) is an
\* allow-listed domain or a subdomain of one; an empty host is never in scope.
C6_InScopeIffHostListed ==
    (scopeRes # "none" /\ ~IsIPv4Literal(HostOf(target))) =>
        ((scopeRes = "ok") <=> (HostOf(target) # <<>> /\ ListedDomain(scope, HostOf(target))))

\* C7: a target whose host is a literal IPv4 address is in scope exactly when
\* that address is listed in ips, independently of the domains list.
C7_IpInScopeIffListed ==
    (scopeRes # "none" /\ IsIPv4Literal(HostOf(target))) =>
        ((scopeRes = "ok") <=> (\E i \in 1..Len(scope.ips) : scope.ips[i] = HostOf(target)))

(***************************************************************************)
(* The throttle of the probe families                                      *)
(***************************************************************************)
\* C11: the throttle is global: the probe families draw from one shared
\* budget, so the requests granted in one window, whichever family asked,
\* never exceed max_requests.
C11_GlobalWindow == UnitsInOpenWindow <= budget.max_requests

\* C12: every request a probe family sends (baseline, discovery, payload)
\* was preceded by a successful acquire on the budget.
C12_AcquireBeforeRequest == \A i \in 1..Len(sent) : sent[i].reserved

(***************************************************************************)
(* The comparator                                                          *)
(***************************************************************************)
\* C13: response_differs and every _differs copy return true exactly when
\* no baseline was obtained, or the status codes differ, or the body lengths
\* differ by more than 50, whatever the baseline's status code is.
C13_DiffersIffDelta ==
    cmp.done =>
        LET differs == \/ cmp.baseline = None
                       \/ cmp.baseline.status_code # cmp.resp.status_code
                       \/ Abs(cmp.baseline.text.len - cmp.resp.text.len) > 50
        IN  /\ cmp.out.response_differs = differs
            /\ cmp.out._differs = differs

(***************************************************************************)
(* The findings of the probe families                                      *)
(***************************************************************************)
\* the responder answers every request with the same response
ConstantResponder ==
    /\ IsResponse(responder[1])
    /\ responder[2] = responder[1]
    /\ responder[3] = responder[1]

\* C14: against a target that answers every request, baseline or payload,
\* with the same status code and a body of the same length, no probe family
\* emits a finding, whatever the body contains.
C14_BaselineSuppression ==
    ConstantResponder => \A f \in DOMAIN scans : scans[f] = <<>>

\* the single form answers its baseline request with a normal page and every
\* payload request with a page that holds a MySQL error
MySqlErrorForm ==
    /\ CanRequest(target)
    /\ crawl_data = [forms |-> <<OneForm>>, endpoints |-> <<>>]
    /\ IsResponse(responder[1]) /\ responder[1].status_code = 200
    /\ "sql_error" \notin responder[1].text.has
    /\ \A i \in 2..3 : /\ IsResponse(responder[i])
                       /\ "sql_error" \in responder[i].text.has

\* C15: with one form whose single text field answers the quote payloads
\* with a MySQL error and whose baseline is a normal page, the SQLi scan
\* followed by triage yields exactly one finding, of type SQLi and severity
\* CRITICAL.
C15_OneSqliFinding ==
    (MySqlErrorForm /\ "sqli" \in DOMAIN scans) =>
        LET out == triage_findings(scans["sqli"])
        IN  /\ Len(out) = 1
            /\ out[1].type = T_SQLi
            /\ out[1].severity = S_CRITICAL

(***************************************************************************)
(* Triage and routing                                                      *)
(***************************************************************************)
\* the fields that identify a finding; an absent field counts as ""
FingerprintTuple(f) ==
    <<Get(f, "type", <<>>), Get(f, "url", <<>>), Get(f, "parameter", <<>>),
      Get(f, "payload", <<>>), Get(f, "issue", <<>>)>>

RECURSIVE FirstOccurrences(_, _)
\* the findings whose tuple no earlier finding has, in input order
FirstOccurrences(fs, seen) ==
    IF fs = <<>> THEN <<>>
    ELSE IF FingerprintTuple(Head(fs)) \in seen
         THEN FirstOccurrences(Tail(fs), seen)
         ELSE <<Head(fs)>>
              \o FirstOccurrences(Tail(fs), seen \cup {FingerprintTuple(Head(fs))})

\* a triaged finding without what triage and the playbook routing added
AsFound(f) == [k \in DOMAIN f \ {"confidence", "playbook"} |-> f[k]]

Triaged == pc \in {"finish", "exited"}

\* C16: triage keeps, for every distinct (type, url, parameter, payload,
\* issue) tuple of the input, exactly the first finding that has it, in
\* input order, and triaging the result again changes nothing.
C16_FirstPerTuple ==
    Triaged =>
        LET first == FirstOccurrences(all_findings(scans), {})
        IN  /\ Len(triaged) = Len(first)
            /\ \A k \in 1..Len(first) : AsFound(triaged[k]) = first[k]
            /\ triage_findings(triage_findings(all_findings(scans)))
                 = triage_findings(all_findings(scans))

\* C17: every finding triage returns carries a confidence between 0.30 and
\* 0.99, whatever its severity (absent and unrecognised ones included) and
\* whatever it carries as indicators or details.
C17_ConfidenceBound ==
    Triaged =>
        \A k \in 1..Len(triaged) :
            /\ "confidence" \in DOMAIN triaged[k]
            /\ 30 <= triaged[k].confidence
            /\ triaged[k].confidence <= 99

\* C17 witness: triage has returned two findings, one of them a CRITICAL
\* finding with indicators, scored at the cap of 0.99.
C17_Witness ==
    /\ Triaged
    /\ Len(triaged) = 2
    /\ \E k \in 1..Len(triaged) :
          /\ Get(triaged[k], "severity", <<>>) = S_CRITICAL
          /\ Get(triaged[k], "indicators", <<>>) # <<>>
          /\ triaged[k].confidence = 99

\* the finding carries corroboration: a non-empty indicators or details
\* list, the indicator of the SSRF timeout finding or the missing list of
\* check_weak_auth
Corroborated(f) ==
    \E k \in {"indicators", "details", "indicator", "missing"} : Get(f, k, <<>>) # <<>>

\* C18: the confidence is min(base + bonus, 0.99), with base 0.90 for
\* CRITICAL, 0.75 for HIGH, 0.50 for MEDIUM, 0.30 for LOW and 0.40 for any
\* other severity, and bonus 0.10 exactly when the finding carries a
\* non-empty corroborating indicator or detail list.  Stated for the
\* findings that have a severity.
C18_ConfidenceFormula ==
    Triaged =>
        \A k \in 1..Len(triaged) :
            LET f == triaged[k]
                severity == Upper(Get(f, "severity", <<>>))
                base == CASE severity = S_CRITICAL -> 90
                          [] severity = S_HIGH     -> 75
                          [] severity = S_MEDIUM   -> 50
                          [] severity = S_LOW      -> 30
                          [] OTHER                 -> 40
                bonus == IF Corroborated(f) THEN 10 ELSE 0
            IN  severity # <<>> => f.confidence = Min(base + bonus, 99)

\* no label of tech_detected holds a key of TECH_TO_PLAYBOOKS
NoTechRecognised ==
    \A i \in 1..Len(tech_detected), j \in 1..Len(TECH_TO_PLAYBOOKS) :
        ~Contains(Lower(tech_detected[i]), TECH_TO_PLAYBOOKS[j][1])

\* C19: when no label is recognised, the empty list included, the routing
\* returns all five probe families, so the findings of every family can get
\* their playbook.
C19_DefaultIsEveryFamily ==
    (Triaged /\ NoTechRecognised) =>
        /\ {routed[i] : i \in 1..Len(routed)} = {PB_xss, PB_sqli, PB_idor, PB_ssrf, PB_auth}
        /\ \A k \in 1..Len(triaged) :
              Lower(Get(triaged[k], "type", <<>>)) \in playbooks
                  => "playbook" \in DOMAIN triaged[k]

(***************************************************************************)
(* Phase isolation                                                         *)
(***************************************************************************)
Happened(e) == \E k \in 1..Len(trace) : trace[k] = e

\* the phase after phase i of ps has been reached: the run is at it or has
\* started it; after the last phase, the step `after`
ReachedNext(ps, i, after, done) ==
    IF i < Len(ps)
    THEN pc = ps[i + 1] \/ Happened(<<"start", ps[i + 1]>>)
    ELSE pc = after \/ Happened(done)

\* the phases of ps were started in the order of ps, none skipped
StartedInOrder(ps) ==
    \A i \in 2..Len(ps) :
        Happened(<<"start", ps[i]>>) =>
            \E k, l \in 1..Len(trace) :
                k < l /\ trace[k] = <<"start", ps[i - 1]>> /\ trace[l] = <<"start", ps[i]>>

\* C20: an exception in one phase (recon, crawl, enrichment or a probe
\* family) never keeps a later phase from running: the next phase in the
\* fixed order is reached, the phases are started in that order, and triage
\* works on the output of exactly the probe families that did not fail.
C20_PhaseIsolation ==
    /\ \A i \in 1..Len(SwarmPhases) :
          Happened(<<"fail", SwarmPhases[i]>>) =>
              ReachedNext(SwarmPhases, i, "save_report", <<"report", "swarm">>)
    /\ \A i \in 1..Len(ProbeFamilies) :
          Happened(<<"fail", ProbeFamilies[i]>>) =>
              ReachedNext(ProbeFamilies, i, "triage", <<"start", "triage">>)
    /\ StartedInOrder(SwarmPhases)
    /\ StartedInOrder(ProbeFamilies \o <<"triage">>)
    /\ \A i \in 1..Len(ProbeFamilies) :
          /\ ProbeFamilies[i] \in DOMAIN scans
                <=> /\ Happened(<<"start", ProbeFamilies[i]>>)
                    /\ ~Happened(<<"fail", ProbeFamilies[i]>>)
          /\ ProbeFamilies[i] \in DOMAIN scans
                => scans[ProbeFamilies[i]] = Scan(ProbeFamilies[i])
    /\ Happened(<<"start", "triage">>) =>
          /\ \A i \in 1..Len(ProbeFamilies) : Happened(<<"start", ProbeFamilies[i]>>)
          /\ triaged = attach_playbooks(triage_findings(all_findings(scans)),
                                        playbooks, route_playbooks(tech_detected))

\* C20 witness: recon and the XSS and Auth scanners raised, and the run
\* still triaged the findings the IDOR scanner returned.
C20_Witness ==
    /\ Happened(<<"fail", "recon">>)
    /\ Happened(<<"fail", "xss">>)
    /\ Happened(<<"fail", "auth">>)
    /\ Happened(<<"start", "triage">>)
    /\ "idor" \in DOMAIN scans
    /\ Len(triaged) = Len(scans["idor"])
    /\ triaged # <<>>

(***************************************************************************)
(* The errors of the aggregate results                                     *)
(***************************************************************************)
\* the number of entries of the trace equal to e
Count(e) == Cardinality({k \in 1..Len(trace) : trace[k] = e})

\* C21: every phase that failed with an exception, a probe family included,
\* has left exactly one error entry naming it in the aggregate result, and
\* no phase has an entry without having failed.
C21_ErrorEntryPerFailure ==
    \A p \in Range(SwarmPhases) \cup Range(ProbeFamilies) :
        /\ Happened(<<"fail", p>>) => Count(<<"errors", p>>) = 1
        /\ Happened(<<"errors", p>>) => Happened(<<"fail", p>>)

(***************************************************************************)
(* Termination                                                             *)
(***************************************************************************)
\* C22: whatever the configured budget size, the scans come to their end:
\* every probe family's scan() returns, no acquire waits forever.
C22_RunTerminates == <>(scanner.family = Len(ProbeFamilies) + 1)

(***************************************************************************)
(* The evidence records                                                    *)
(***************************************************************************)
\* C23: the requests of the probe families and the evidence records are in
\* one-to-one correspondence: every request sent, baseline and payload
\* alike, has its own record in the evidence directory, and no record is
\* overwritten by a later one.
C23_OneRecordPerCall ==
    LET files == evidence_files(sent)
    IN  /\ \A i \in 1..Len(sent) : \E f \in DOMAIN files : files[f] = i
        /\ \A i, j \in 1..Len(sent) :
              (i < j /\ sent[i].saved /\ sent[j].saved)
                  => evidence_path(sent[i]) # evidence_path(sent[j])

(***************************************************************************)
(* The dry run                                                             *)
(***************************************************************************)
\* C24: with --dry-run the swarm orchestrator starts no phase and no probe
\* family and sends no request, whatever the other flags are, and once the
\* target has passed the gate it writes the report.
C24_DryRunNoRequests ==
    (args.entry = "swarm" /\ args.dry_run) =>
        /\ ~Did({"requests", "start"})
        /\ (focusRes = "ok" /\ pc # "save_report") => Happened(<<"report", "swarm">>)

\* C24 witness: a dry run with --run-vuln --authorized and an active profile
\* has written its report and ended.
C24_Witness ==
    /\ args.entry = "swarm" /\ args.dry_run
    /\ args.run_vuln /\ args.authorized /\ args.profile = "active"
    /\ Happened(<<"report", "swarm">>)
    /\ pc = "exited"

(***************************************************************************)
(* What a finding rests on                                                 *)
(***************************************************************************)
\* the response differs from the baseline: no baseline, another status code
\* or a body length more than 50 away
Significant(baseline, resp) ==
    \/ baseline = None
    \/ baseline.status_code # resp.status_code
    \/ Abs(baseline.text.len - resp.text.len) > DefaultMinDelta

\* the evidence pattern of the family matches the response
EvidenceMatches(family, resp) ==
    CASE family = "xss"  -> "payload" \in resp.text.has
      [] family = "sqli" -> "sql_error" \in resp.text.has
      [] family = "idor" -> /\ resp.status_code = 200
                            /\ resp.text.has \cap {"password", "sensitive"} # {}
      [] family = "ssrf" -> ssrf_indicators(resp) # <<>>

\* the payload a finding names
PayloadOf(f) == IF "test_id" \in DOMAIN f THEN f.test_id ELSE f.payload

\* the i-th payload of the family
FamilyPayload(family, i) ==
    CASE family = "xss"  -> XssPayloads[i]
      [] family = "sqli" -> SqliPayloads[i]
      [] family = "idor" -> <<IdorTestIds[i]>>
      [] family = "ssrf" -> SsrfPayloads[i]

InjectionFamilies == {"xss", "sqli", "idor", "ssrf"}

\* C25: every finding of an injection-style probe, the SSRF timeout finding
\* apart, names the payload of the request it was built after, and the
\* response to that request is significant relative to the baseline and
\* matches the family's evidence pattern; no finding is in the list twice;
\* and in the SSRF probe every payload whose response is significant and
\* has evidence gets its finding, whatever the payloads before it returned.
C25_FindingNeedsEvidence ==
    \A family \in InjectionFamilies \cap DOMAIN scans :
        LET fs == scans[family]
        IN  /\ \A k \in 1..Len(fs) :
                  LET resp == Fetch(fs[k].url, fs[k].timestamp[2])
                  IN  "indicator" \notin DOMAIN fs[k] =>
                          /\ PayloadOf(fs[k]) = FamilyPayload(family, fs[k].timestamp[2])
                          /\ IsResponse(resp)
                          /\ Significant(Baseline(fs[k].url), resp)
                          /\ EvidenceMatches(family, resp)
            /\ \A a, b \in 1..Len(fs) : a < b => fs[a] # fs[b]
            /\ family = "ssrf" =>
                  \A e \in 1..Len(crawl_data.endpoints), i \in 1..Len(SsrfPayloads) :
                      LET url  == crawl_data.endpoints[e].url
                          resp == Fetch(url, i)
                      IN  ( /\ IsResponse(resp)
                            /\ Significant(Baseline(url), resp)
                            /\ EvidenceMatches("ssrf", resp) )
                          => \E k \in 1..Len(fs) :
                                /\ fs[k].url = url
                                /\ fs[k].payload = SsrfPayloads[i]
                                /\ "indicators" \in DOMAIN fs[k]

(***************************************************************************)
(* The payload loops                                                       *)
(***************************************************************************)
\* C26: each probe family emits at most one finding per injection point, and
\* after the request that gave an injection point its finding the scan sends
\* no further payload request to that injection point.
C26_ShortCircuit ==
    \A family \in InjectionFamilies \cap DOMAIN scans :
        LET fs == scans[family]
            rs == Requests(family)
        IN  /\ \A a, b \in 1..Len(fs) :
                  a < b => fs[a].timestamp[1] # fs[b].timestamp[1]
            /\ \A k \in 1..Len(fs), r \in 1..Len(rs) :
                  rs[r].pt = fs[k].timestamp[1] => rs[r].i <= fs[k].timestamp[2]


\* the number of payload requests a family has for one injection point
PayloadLimit(family) ==
    CASE family = "xss"  -> XssLimit
      [] family = "sqli" -> SqliLimit
      [] family = "idor" -> Len(IdorTestIds)
      [] family = "ssrf" -> Len(SsrfPayloads)

\* the injection points a scan of the family has to test, as numbered by
\* the scan: the forms with an input and the endpoints with a query string,
\* the endpoints with an id, the parameters with an SSRF name
InjectionPoints(family) ==
    LET forms == {j \in 1..Len(crawl_data.forms) : crawl_data.forms[j].inputs # <<>>}
        ends  == {Len(crawl_data.forms) + j : j \in
                     {e \in 1..Len(crawl_data.endpoints) :
                          crawl_data.endpoints[e].params # <<>>}}
    IN  CASE family \in {"xss", "sqli"} -> forms \cup ends
          [] family = "idor" -> 1..Len(extract_idor_endpoints)
          [] family = "ssrf" ->
                 LET before[e \in 0..Len(crawl_data.endpoints)] ==
                         IF e = 0 THEN 0
                         ELSE before[e - 1] + Len(crawl_data.endpoints[e].params)
                 IN  UNION {{before[e - 1] + k : k \in
                               {j \in 1..Len(crawl_data.endpoints[e].params) :
                                    Lower(crawl_data.endpoints[e].params[j]) \in ssrf_params}} :
                            e \in 1..Len(crawl_data.endpoints)}

\* request r of the log raised
RequestRaised(r) == ~IsResponse(Fetch(r.url, r.i))

\* C27: in the scan of an injection-style probe a request that raises is
\* skipped and not sent again: each (injection point, payload) pair is
\* requested at most once; a finding is built only after a request that was
\* answered, the SSRF timeout finding apart; after a baseline or payload
\* request that raised, the next payload of the same injection point is
\* still requested; and every injection point of the scan gets its baseline
\* request whatever raised before it.
C27_FailedRequestSkipped ==
    \A family \in InjectionFamilies \cap DOMAIN scans :
        LET fs == scans[family]
            rs == Requests(family)
        IN  /\ \A a, b \in 1..Len(rs) :
                  a < b => <<rs[a].pt, rs[a].i>> # <<rs[b].pt, rs[b].i>>
            /\ \A k \in 1..Len(fs) :
                  \E r \in 1..Len(rs) :
                      /\ <<rs[r].pt, rs[r].i>> = fs[k].timestamp
                      /\ \/ ~RequestRaised(rs[r])
                         \/ /\ family = "ssrf"
                            /\ Fetch(rs[r].url, rs[r].i) = Timeout
                            /\ "indicator" \in DOMAIN fs[k]
            /\ \A r \in 1..Len(rs) :
                  (rs[r].pt >= 1 /\ RequestRaised(rs[r]) /\ rs[r].i < PayloadLimit(family)) =>
                      \E s \in (r + 1)..Len(rs) :
                          rs[s].pt = rs[r].pt /\ rs[s].i = rs[r].i + 1
            /\ \A pt \in InjectionPoints(family) :
                  \E r \in 1..Len(rs) : rs[r].pt = pt /\ rs[r].i = 0

\* a scan in which the first payload request of an injection point raised
\* and the second one gave that injection point a finding
C27_Witness ==
    \E family \in InjectionFamilies \cap DOMAIN scans :
        \E k \in 1..Len(scans[family]), r \in 1..Len(Requests(family)) :
            /\ Requests(family)[r].pt = scans[family][k].timestamp[1]
            /\ Requests(family)[r].i = 1
            /\ RequestRaised(Requests(family)[r])
            /\ scans[family][k].timestamp[2] = 2


(***************************************************************************)
(* The gate and the files it reads                                         *)
(***************************************************************************)
\* the run has got past require_in_scope and require_focus_target
GatePassed == exit = NotExited /\ pc \notin {"start", "scope", "authz", "focus"}

\* the focus dict the text of the focus file configures
Configured(f) == load_focus([kind |-> "ok", data |-> f.data])

\* C28: a run gets past the gate only when the scope file and the focus file
\* were both read and parsed; in particular, with a focus file that exists
\* and does not parse, a run that gets past the gate has the target the
\* file configures.
C28_GateFailsClosed ==
    GatePassed =>
        /\ scopeFile.kind = "ok"
        /\ focusFile.kind = "ok"
        /\ (focusFile.kind = "unparsable" /\ Configured(focusFile).enabled) =>
               Lower(Strip(target)) = resolve_focus_target(Configured(focusFile), now).val


(***************************************************************************)
(* wait_for_budget                                                         *)
(***************************************************************************)
\* the window of the budget has elapsed at the current time
WindowElapsed == clock - budget._window_start >= budget.window_seconds

\* the step is an iteration of the loop of wait_for_budget in which allow(n)
\* returned False
Rejected(c) == Poll(c) /\ ~allow(budget, callers[c].n, clock).ok

\* a call with n <= max_requests returns
WaitReturns ==
    \A n \in 1..MaxUnits :
        (callers[1].pc = "waiting" /\ callers[1].n = n /\ n <= budget.max_requests)
            ~> (callers[1].pc = "idle")

\* the call returns having reserved exactly n units: the count of the open
\* window and the units granted so far are both n higher
ReturnReserves ==
    Returns(1) =>
        /\ budget'._count = (IF WindowElapsed THEN 0 ELSE budget._count) + callers[1].n
        /\ UnitsSince(grants', 0) = UnitsSince(grants, 0) + callers[1].n

\* a call with n > max_requests does not return
NeverReturns == callers[1].n > budget.max_requests => ~Returns(1)

\* C29 as stated: wait_for_budget(n) with n <= max_requests returns, given
\* that time advances, having reserved exactly n units; an attempt that is
\* rejected leaves the count as it was; a call with n > max_requests never
\* returns.
C29_WaitForBudget ==
    /\ WaitReturns
    /\ [][ReturnReserves]_vars
    /\ [][Rejected(1) => budget'._count = budget._count]_vars
    /\ [][NeverReturns]_vars

\* C29 amended: as stated, but an attempt that is rejected leaves the count
\* as it was only within a window; when the window has elapsed it starts the
\* next window, with a count of 0, before it is rejected.  It grants
\* nothing either way.
C29_WaitForBudgetAmended ==
    /\ WaitReturns
    /\ [][ReturnReserves]_vars
    /\ [][Rejected(1) =>
             /\ budget'._count = (IF WindowElapsed THEN 0 ELSE budget._count)
             /\ grants' = grants]_vars
    /\ [][NeverReturns]_vars

\* C29 witness: the caller was rejected in a full window and has returned
\* in a later one with its units reserved
C29_Witness ==
    /\ callers[1].pc = "idle" /\ callers[1].denied
    /\ budget.max_requests >= 1
    /\ budget._count >= 1
    /\ UnitsSince(grants, 0) > budget.max_requests


\* C30: a finding is dropped by triage only as the duplicate of a retained
\* finding with the same (type, url, parameter, payload, issue) tuple, field
\* by field: every finding of the input has its tuple among the tuples of
\* the triaged findings, and no two triaged findings have the same tuple,
\* also for fields that hold "|".
C30_DuplicatesHaveEqualTuples ==
    Triaged =>
        LET fs == all_findings(scans)
        IN  /\ \A k \in 1..Len(fs) :
                  \E j \in 1..Len(triaged) :
                      FingerprintTuple(triaged[j]) = FingerprintTuple(fs[k])
            /\ \A i, j \in 1..Len(triaged) :
                  i < j => FingerprintTuple(triaged[i]) # FingerprintTuple(triaged[j])

====
